---- MODULE Spec2Model ----
(***************************************************************************)
(* A model of pyapi_denise.py: the Denise class that keeps the parameter   *)
(* file of DENISE-Black-Edition as a line-addressed registry, derives the  *)
(* time step, validates the domain decomposition, schedules FWI stages and *)
(* launches the external solver.                                           *)
(*                                                                         *)
(* Text is modelled character by character: a Python str is a TLA+ string, *)
(* indexed with SubSeq, and the conversions between text and values        *)
(* (ast.literal_eval, str) are computed on the characters.                 *)
(***************************************************************************)
EXTENDS Integers, Sequences, FiniteSets, Bags, TLC

(***************************************************************************)
(* Python str primitives used by the registry.                             *)
(***************************************************************************)
Char(s, i) == SubSeq(s, i, i)

SetMax(S) == CHOOSE x \in S : \A y \in S : y <= x

SetMin(S) == CHOOSE x \in S : \A y \in S : x <= y

IsSpace(c) == c \in {" ", "\t", "\n"}

RECURSIVE lstrip(_)
lstrip(s) ==
    IF Len(s) > 0 /\ IsSpace(Char(s, 1)) THEN lstrip(SubSeq(s, 2, Len(s))) ELSE s

RECURSIVE rstrip(_)
rstrip(s) ==
    IF Len(s) > 0 /\ IsSpace(Char(s, Len(s)))
    THEN rstrip(SubSeq(s, 1, Len(s) - 1))
    ELSE s

\* str.strip()
strip(s) == lstrip(rstrip(s))

\* c in s, for a one-character c
Contains(s, c) == \E i \in 1..Len(s) : Char(s, i) = c

IndexesOf(s, c) == {i \in 1..Len(s) : Char(s, i) = c}

\* s.split('=')[-1]
SplitLast(s) ==
    IF Contains(s, "=") THEN SubSeq(s, SetMax(IndexesOf(s, "=")) + 1, Len(s)) ELSE s

\* s.split('=')[0]
SplitFirst(s) ==
    IF Contains(s, "=") THEN SubSeq(s, 1, SetMin(IndexesOf(s, "=")) - 1) ELSE s

\* '='.join(s.split('=')[:-1])
JoinButLast(s) ==
    IF Contains(s, "=") THEN SubSeq(s, 1, SetMax(IndexesOf(s, "=")) - 1) ELSE ""

\* s.replace('(', '').replace(')', '')
RECURSIVE RemoveParens(_)
RemoveParens(s) ==
    IF s = "" THEN ""
    ELSE (IF Char(s, 1) \in {"(", ")"} THEN "" ELSE Char(s, 1))
             \o RemoveParens(SubSeq(s, 2, Len(s)))

\* re.findall(r'\((.*?)\)', s): the groups of the non-overlapping, non-greedy
\* matches, left to right, scanning from position `from`
RECURSIVE findall(_, _)
findall(s, from) ==
    LET opens == {i \in from..Len(s) : Char(s, i) = "("}
    IN  IF opens = {} THEN <<>>
        ELSE LET i == SetMin(opens)
                 closes == {j \in (i + 1)..Len(s) : Char(s, j) = ")"}
             IN  IF closes = {} THEN <<>>
                 ELSE LET j == SetMin(closes)
                      IN  <<SubSeq(s, i + 1, j - 1)>> \o findall(s, j + 1)

RECURSIVE Join(_)
\* ''.join(c)
Join(c) == IF c = <<>> THEN "" ELSE Head(c) \o Join(Tail(c))

(***************************************************************************)
(* Python values held by the attributes: int, float, str, None, bool and   *)
(* the empty tuple.  A float is the decimal n * 10^e with n not divisible  *)
(* by ten (n = 0, e = 0 for zero).                                         *)
(***************************************************************************)
IntV(n) == [t |-> "int", n |-> n, e |-> 0, s |-> ""]

FloatV(n, e) == [t |-> "float", n |-> n, e |-> e, s |-> ""]

StrV(s) == [t |-> "str", n |-> 0, e |-> 0, s |-> s]

NoneV == [t |-> "none", n |-> 0, e |-> 0, s |-> ""]

BoolV(b) == [t |-> "bool", n |-> IF b THEN 1 ELSE 0, e |-> 0, s |-> ""]

EmptyTupleV == [t |-> "tuple", n |-> 0, e |-> 0, s |-> ""]

DigitChars == "0123456789"

IsDigit(c) == \E i \in 1..10 : Char(DigitChars, i) = c

DigitVal(c) == (CHOOSE i \in 1..10 : Char(DigitChars, i) = c) - 1

AllDigits(s) == \A i \in 1..Len(s) : IsDigit(Char(s, i))

RECURSIVE ParseNat(_)
ParseNat(s) ==
    IF s = "" THEN 0
    ELSE ParseNat(SubSeq(s, 1, Len(s) - 1)) * 10 + DigitVal(Char(s, Len(s)))

RECURSIVE NatToStr(_)
NatToStr(n) ==
    IF n < 10 THEN Char(DigitChars, n + 1)
    ELSE NatToStr(n \div 10) \o Char(DigitChars, (n % 10) + 1)

RECURSIVE Zeros(_)
Zeros(k) == IF k <= 0 THEN "" ELSE "0" \o Zeros(k - 1)

RECURSIVE Pow10(_)
Pow10(k) == IF k <= 0 THEN 1 ELSE 10 * Pow10(k - 1)

\* the decimal n * 10^e with trailing zeros of n moved into e
RECURSIVE NormFloat(_, _)
NormFloat(n, e) ==
    IF n = 0 THEN FloatV(0, 0)
    ELSE IF n % 10 = 0 THEN NormFloat(n \div 10, e + 1)
    ELSE FloatV(n, e)

(***************************************************************************)
(* ast.literal_eval on the literals a parameter file holds: integers,      *)
(* floats (point and exponent forms), None, True, False, a quoted string   *)
(* without escapes, one leading sign, and enclosing parentheses.  The      *)
(* result is [ok, val]; ok = FALSE stands for SyntaxError or ValueError.   *)
(***************************************************************************)
IsIntLit(s) ==
    /\ Len(s) > 0
    /\ AllDigits(s)
    /\ (Char(s, 1) # "0" \/ \A i \in 1..Len(s) : Char(s, i) = "0")

IsPointFloat(m) ==
    /\ Cardinality(IndexesOf(m, ".")) = 1
    /\ LET p == SetMin(IndexesOf(m, "."))
       IN  /\ AllDigits(SubSeq(m, 1, p - 1))
           /\ AllDigits(SubSeq(m, p + 1, Len(m)))
           /\ Len(m) > 1

PointFloatVal(m) ==
    IF Contains(m, ".")
    THEN LET p == SetMin(IndexesOf(m, "."))
         IN  [n |-> ParseNat(SubSeq(m, 1, p - 1) \o SubSeq(m, p + 1, Len(m))),
              e |-> 0 - (Len(m) - p)]
    ELSE [n |-> ParseNat(m), e |-> 0]

ExpIndexes(s) == IndexesOf(s, "e") \cup IndexesOf(s, "E")

Unsign(x) == IF Len(x) > 0 /\ Char(x, 1) \in {"+", "-"} THEN SubSeq(x, 2, Len(x)) ELSE x

IsExpPart(x) == Len(Unsign(x)) > 0 /\ AllDigits(Unsign(x))

ExpVal(x) ==
    IF Len(x) > 0 /\ Char(x, 1) = "-" THEN 0 - ParseNat(Unsign(x)) ELSE ParseNat(Unsign(x))

IsFloatLit(s) ==
    IF ExpIndexes(s) = {} THEN IsPointFloat(s)
    ELSE /\ Cardinality(ExpIndexes(s)) = 1
         /\ LET k == SetMin(ExpIndexes(s))
                m == SubSeq(s, 1, k - 1)
            IN  /\ IsPointFloat(m) \/ (Len(m) > 0 /\ AllDigits(m))
                /\ IsExpPart(SubSeq(s, k + 1, Len(s)))

FloatLitVal(s) ==
    IF ExpIndexes(s) = {}
    THEN NormFloat(PointFloatVal(s).n, PointFloatVal(s).e)
    ELSE LET k == SetMin(ExpIndexes(s))
             m == PointFloatVal(SubSeq(s, 1, k - 1))
         IN  NormFloat(m.n, m.e + ExpVal(SubSeq(s, k + 1, Len(s))))

Failed == [ok |-> FALSE, val |-> NoneV]

Evaluated(v) == [ok |-> TRUE, val |-> v]

IsWrapped(s, open, close) ==
    Len(s) >= 2 /\ Char(s, 1) = open /\ Char(s, Len(s)) = close

Inner(s) == SubSeq(s, 2, Len(s) - 1)

\* a number, possibly in parentheses: the operand a sign may be applied to
RECURSIVE literal_number(_)
literal_number(s) ==
    IF IsIntLit(s) THEN Evaluated(IntV(ParseNat(s)))
    ELSE IF IsFloatLit(s) THEN Evaluated(FloatLitVal(s))
    ELSE IF IsWrapped(s, "(", ")") THEN literal_number(strip(Inner(s)))
    ELSE Failed

Negated(v) == [v EXCEPT !.n = 0 - v.n]

RECURSIVE literal_eval(_)
literal_eval(s) ==
    IF s = "None" THEN Evaluated(NoneV)
    ELSE IF s = "True" THEN Evaluated(BoolV(TRUE))
    ELSE IF s = "False" THEN Evaluated(BoolV(FALSE))
    ELSE IF literal_number(s).ok THEN literal_number(s)
    ELSE IF Len(s) >= 2 /\ Char(s, 1) \in {"+", "-"}
    THEN LET r == literal_number(lstrip(SubSeq(s, 2, Len(s))))
         IN  IF ~r.ok THEN Failed
             ELSE IF Char(s, 1) = "-" THEN Evaluated(Negated(r.val))
             ELSE r
    ELSE IF s = "()" THEN Evaluated(EmptyTupleV)
    ELSE IF IsWrapped(s, "(", ")") THEN literal_eval(strip(Inner(s)))
    ELSE IF /\ IsWrapped(s, "'", "'") \/ IsWrapped(s, "\"", "\"")
            /\ \A i \in 2..(Len(s) - 1) : Char(s, i) \notin {"'", "\"", "\\"}
    THEN Evaluated(StrV(Inner(s)))
    ELSE Failed

(***************************************************************************)
(* str(value).  A float prints as Python's repr does: positional notation  *)
(* when the decimal exponent is in -4..15, exponent notation otherwise.    *)
(***************************************************************************)
FloatRepr(n, e) ==
    LET ds == NatToStr(n)
        d == Len(ds)
        X == d + e - 1
        absX == IF X < 0 THEN 0 - X ELSE X
    IN  IF n = 0 THEN "0.0"
        ELSE IF X < -4 \/ X >= 16
        THEN Char(ds, 1) \o (IF d > 1 THEN "." \o SubSeq(ds, 2, d) ELSE "")
                 \o "e" \o (IF X < 0 THEN "-" ELSE "+")
                 \o (IF absX < 10 THEN "0" ELSE "") \o NatToStr(absX)
        ELSE IF e >= 0 THEN ds \o Zeros(e) \o ".0"
        ELSE IF d + e > 0 THEN SubSeq(ds, 1, d + e) \o "." \o SubSeq(ds, d + e + 1, d)
        ELSE "0." \o Zeros(0 - (d + e)) \o ds

Str(v) ==
    CASE v.t = "int" -> IF v.n < 0 THEN "-" \o NatToStr(0 - v.n) ELSE NatToStr(v.n)
      [] v.t = "float" ->
            IF v.n < 0 THEN "-" \o FloatRepr(0 - v.n, v.e) ELSE FloatRepr(v.n, v.e)
      [] v.t = "str" -> v.s
      [] v.t = "none" -> "None"
      [] v.t = "bool" -> IF v.n = 1 THEN "True" ELSE "False"
      [] v.t = "tuple" -> "()"

(***************************************************************************)
(* The parameter registry: _parse_inp_file and _write_inp_file.            *)
(***************************************************************************)
\* dict d with d[k] = v
Put(d, k, v) == [x \in DOMAIN d \cup {k} |-> IF x = k THEN v ELSE d[x]]

EmptyDict == [x \in {} |-> 0]

\* One pass of the loop body over line number `count` of lines c.  The
\* accumulator holds the status, the local dict para and self._map_args.
parse_line(acc, raw, count) ==
    LET line == strip(raw)
    IN  IF line = "" THEN [acc EXCEPT !.status = "IndexError"]
        ELSE IF Char(line, 1) = "#" THEN acc
        ELSE IF ~Contains(line, "(") /\ ~Contains(line, "=")
        THEN [acc EXCEPT !.status = "break"]
        ELSE IF Contains(line, "(") /\ findall(line, 1) = <<>>
        THEN [acc EXCEPT !.status = "IndexError"]
        ELSE LET arg_name == IF Contains(line, "(")
                             THEN findall(line, 1)[Len(findall(line, 1))]
                             ELSE strip(SplitFirst(line))
                 arg_val == strip(SplitLast(line))
                 or_string(lit) == IF lit.ok THEN lit.val ELSE StrV(arg_val)
             IN  [acc EXCEPT !.para = Put(@, arg_name, or_string(literal_eval(arg_val))),
                             !.map_args = Put(@, arg_name, count)]

RECURSIVE parse_loop(_, _, _)
parse_loop(acc, c, count) ==
    IF count > Len(c) \/ acc.status # "run" THEN acc
    ELSE parse_loop(parse_line(acc, c[count], count), c, count + 1)

\* _parse_inp_file on the lines c of the parameter file: the status is "ok"
\* when the loop ends (by exhaustion or by break), "IndexError" when it raises
parse_inp_file(c) ==
    [parse_loop([status |-> "run", para |-> EmptyDict, map_args |-> EmptyDict], c, 1)
        EXCEPT !.status = IF @ = "IndexError" THEN "IndexError" ELSE "ok"]

\* a writer that leaves the recorded lines as they are
rewrite_line_kept(old, v) == old

\* the line the loop of _write_inp_file stores for an attribute of value v
rewrite_line(old, v) == JoinButLast(old) \o "= " \o RemoveParens(Str(v)) \o "\n"

\* the list c after the loop of _write_inp_file
write_lines(c, margs, at) ==
    [i \in 1..Len(c) |->
        IF \E a \in DOMAIN margs : margs[a] = i
        THEN rewrite_line(c[i], at[CHOOSE a \in DOMAIN margs : margs[a] = i])
        ELSE c[i]]

(***************************************************************************)
(* Exact arithmetic for the stability analysis.  A natural number of any   *)
(* size is the sequence of its base-10000 digits, least significant first  *)
(* (<<>> is zero), so that products of velocities, grid spacings and       *)
(* coefficient sums do not overflow.  The operators work on all the digits *)
(* at once, without recursion over them.                                   *)
(***************************************************************************)
RECURSIVE BigOf(_)
BigOf(n) == IF n = 0 THEN <<>> ELSE <<n % 10000>> \o BigOf(n \div 10000)

\* the digit of a at place i, 0 above its last digit
Digit(a, i) == IF i \in 1..Len(a) THEN a[i] ELSE 0

\* a without the zero digits at its top
BigTrim(a) == SubSeq(a, 1, SetMax({0} \cup {i \in 1..Len(a) : a[i] # 0}))

\* a + b: place i takes a carry when a lower place j overflows and every
\* place between j and i holds 9999
BigAdd(a, b) ==
    LET carry(i) ==
            \E j \in 1..(i - 1) :
                /\ Digit(a, j) + Digit(b, j) >= 10000
                /\ \A m \in (j + 1)..(i - 1) : Digit(a, m) + Digit(b, m) = 9999
    IN  [i \in 1..((IF Len(a) > Len(b) THEN Len(a) ELSE Len(b)) + 1) |->
            (Digit(a, i) + Digit(b, i) + (IF carry(i) THEN 1 ELSE 0)) % 10000]

\* the digits of the number whose places, least significant first, hold the
\* naturals of l: each place passes what exceeds its digit to the next place,
\* twice, after which a place passes 0 or 1 and the rest is an addition
Normal(l) ==
    LET carried(c) == [i \in 1..(Len(c) + 1) |->
                          (Digit(c, i) % 10000) + (Digit(c, i - 1) \div 10000)]
        added(c) == BigAdd([i \in DOMAIN c |-> c[i] % 10000],
                           <<0>> \o [i \in DOMAIN c |-> c[i] \div 10000])
    IN  BigTrim(added(carried(carried(l))))

BigMulSmall(a, d, carry) ==
    IF a = <<>> THEN BigOf(carry)
    ELSE Normal([i \in 1..Len(a) |-> a[i] * d + (IF i = 1 THEN carry ELSE 0)])

\* a * b: place k of the product holds the sum of the a[i] * b[k - i + 1]
BigMul(a, b) ==
    LET sum(f) == BagCardinality([i \in DOMAIN f |-> f[i] + 1]) - Len(f)
    IN  IF b = <<>> \/ a = <<>> THEN <<>>
        ELSE Normal([k \in 1..(Len(a) + Len(b) - 1) |->
                        sum([i \in 1..Len(a) |-> a[i] * Digit(b, k - i + 1)])])

BigLeqTrimmed(a, b) ==
    IF Len(a) # Len(b) THEN Len(a) < Len(b)
    ELSE LET differ == {i \in 1..Len(a) : a[i] # b[i]}
         IN  differ = {} \/ a[SetMax(differ)] < b[SetMax(differ)]

BigLeq(a, b) == BigLeqTrimmed(BigTrim(a), BigTrim(b))

\* a * 10^k (a for k <= 0): k \div 4 zero digits under the digits of a * 10^(k % 4)
BigTimesPow10(a, k) ==
    IF k <= 0 THEN a ELSE [i \in 1..(k \div 4) |-> 0] \o BigMulSmall(a, Pow10(k % 4), 0)

BigSq(a) == BigMul(a, a)

(***************************************************************************)
(* The stability analyzer, _check_stability.  The FD operator weights are  *)
(* the literals of the source, each written as <<numerator, denominator>>. *)
(* The quantities are computed as exact real numbers (the code uses IEEE   *)
(* doubles); sqrt(2) is removed by comparing squares.  Of the roundings of *)
(* double arithmetic the one of np.log10 is kept: the logarithm of a       *)
(* number just below a power of ten 10^k has the integer k as its nearest  *)
(* double, and its floor is then k, not k - 1.                             *)
(***************************************************************************)
hc0 ==
    << << <<1, 1>>, <<0, 1>>, <<0, 1>>, <<0, 1>>, <<0, 1>>, <<0, 1>> >>,
       << <<9, 8>>, <<-1, 24>>, <<0, 1>>, <<0, 1>>, <<0, 1>>, <<0, 1>> >>,
       << <<75, 64>>, <<-25, 384>>, <<3, 640>>, <<0, 1>>, <<0, 1>>, <<0, 1>> >>,
       << <<1225, 1024>>, <<-245, 3072>>, <<49, 5120>>, <<-5, 7168>>, <<0, 1>>, <<0, 1>> >>,
       << <<19845, 16384>>, <<-735, 8192>>, <<567, 40960>>, <<-405, 229376>>,
          <<35, 294912>>, <<0, 1>> >>,
       << <<160083, 131072>>, <<-12705, 131072>>, <<22869, 1310720>>,
          <<-5445, 1835008>>, <<847, 2359296>>, <<-63, 2883584>> >> >>

hc1 ==
    << << <<1001, 1000>>, <<0, 1>>, <<0, 1>>, <<0, 1>>, <<0, 1>>, <<0, 1>> >>,
       << <<11382, 10000>>, <<-46414, 1000000>>, <<0, 1>>, <<0, 1>>, <<0, 1>>, <<0, 1>> >>,
       << <<11965, 10000>>, <<-78804, 1000000>>, <<81781, 10000000>>, <<0, 1>>,
          <<0, 1>>, <<0, 1>> >>,
       << <<12257, 10000>>, <<-99537, 1000000>>, <<18063, 1000000>>,
          <<-26274, 10000000>>, <<0, 1>>, <<0, 1>> >>,
       << <<12415, 10000>>, <<-11231, 100000>>, <<26191, 1000000>>,
          <<-64682, 10000000>>, <<1191, 1000000>>, <<0, 1>> >>,
       << <<12508, 10000>>, <<-12034, 100000>>, <<32131, 1000000>>,
          <<-10142, 1000000>>, <<29857, 10000000>>, <<-66667, 100000000>> >> >>

hc2 ==
    << << <<1005, 1000>>, <<0, 1>>, <<0, 1>>, <<0, 1>>, <<0, 1>>, <<0, 1>> >>,
       << <<11534, 10000>>, <<-52806, 1000000>>, <<0, 1>>, <<0, 1>>, <<0, 1>>, <<0, 1>> >>,
       << <<12111, 10000>>, <<-88313, 1000000>>, <<11768, 1000000>>, <<0, 1>>,
          <<0, 1>>, <<0, 1>> >>,
       << <<12367, 10000>>, <<-10815, 100000>>, <<23113, 1000000>>,
          <<-46905, 10000000>>, <<0, 1>>, <<0, 1>> >>,
       << <<12496, 10000>>, <<-11921, 100000>>, <<3113, 100000>>, <<-93272, 10000000>>,
          <<25161, 10000000>>, <<0, 1>> >>,
       << <<12568, 10000>>, <<-12573, 100000>>, <<36423, 1000000>>,
          <<-13132, 1000000>>, <<47484, 10000000>>, <<-15979, 10000000>> >> >>

hc3 ==
    << << <<101, 100>>, <<0, 1>>, <<0, 1>>, <<0, 1>>, <<0, 1>>, <<0, 1>> >>,
       << <<1164, 1000>>, <<-57991, 1000000>>, <<0, 1>>, <<0, 1>>, <<0, 1>>, <<0, 1>> >>,
       << <<12192, 10000>>, <<-9407, 100000>>, <<14608, 1000000>>, <<0, 1>>, <<0, 1>>,
          <<0, 1>> >>,
       << <<12422, 10000>>, <<-11269, 100000>>, <<2614, 100000>>, <<-64054, 10000000>>,
          <<0, 1>>, <<0, 1>> >>,
       << <<12534, 10000>>, <<-12257, 100000>>, <<33755, 1000000>>,
          <<-11081, 1000000>>, <<36784, 10000000>>, <<0, 1>> >>,
       << <<12596, 10000>>, <<-12825, 100000>>, <<3855, 100000>>, <<-14763, 1000000>>,
          <<58619, 10000000>>, <<-24538, 10000000>> >> >>

hc4 ==
    << << <<103, 100>>, <<0, 1>>, <<0, 1>>, <<0, 1>>, <<0, 1>>, <<0, 1>> >>,
       << <<11876, 10000>>, <<-72518, 1000000>>, <<0, 1>>, <<0, 1>>, <<0, 1>>, <<0, 1>> >>,
       << <<12341, 10000>>, <<-10569, 100000>>, <<22589, 1000000>>, <<0, 1>>, <<0, 1>>,
          <<0, 1>> >>,
       << <<12516, 10000>>, <<-12085, 100000>>, <<32236, 1000000>>,
          <<-11459, 1000000>>, <<0, 1>>, <<0, 1>> >>,
       << <<12596, 10000>>, <<-12829, 100000>>, <<38533, 1000000>>,
          <<-14681, 1000000>>, <<7258, 1000000>>, <<0, 1>> >>,
       << <<1264, 1000>>, <<-13239, 100000>>, <<42217, 1000000>>, <<-17803, 1000000>>,
          <<81959, 10000000>>, <<-51848, 10000000>> >> >>

hc(max_relative_error) ==
    CASE max_relative_error = 0 -> hc0
      [] max_relative_error = 1 -> hc1
      [] max_relative_error = 2 -> hc2
      [] max_relative_error = 3 -> hc3
      [] max_relative_error = 4 -> hc4

RECURSIVE Gcd(_, _)
Gcd(a, b) == IF b = 0 THEN a ELSE Gcd(b, a % b)

Lcm(a, b) == (a \div Gcd(a, b)) * b

RECURSIVE RowDen(_)
\* the least common denominator of a row of weights
RowDen(row) == IF row = <<>> THEN 1 ELSE Lcm(Head(row)[2], RowDen(Tail(row)))

Abs(x) == IF x < 0 THEN 0 - x ELSE x

RECURSIVE RowAbsSum(_, _)
\* np.sum(np.abs(row)), as a numerator over the denominator den
RowAbsSum(row, den) ==
    IF row = <<>> THEN 0
    ELSE Abs(Head(row)[1]) * (den \div Head(row)[2]) + RowAbsSum(Tail(row), den)

\* a numeric value as numerator and denominator
ValNum(v) == IF v.e > 0 THEN v.n * Pow10(v.e) ELSE v.n

ValDen(v) == IF v.e < 0 THEN Pow10(0 - v.e) ELSE 1

ValLess(a, b) == ValNum(a) * ValDen(b) < ValNum(b) * ValDen(a)

\* maxvel: maxvp unless maxvp < maxvs
maxvel(maxvp, maxvs) == IF ValLess(maxvp, maxvs) THEN maxvs ELSE maxvp

\* dt = DH / (sqrt(2) * gamma * maxvel), kept as [a, b] with dt = a / (b * sqrt(2))
cfl_dt(max_relative_error, FD_ORDER, DH, maxvp, maxvs) ==
    LET fdcoeff == (FD_ORDER \div 2) - 1
        row == hc(max_relative_error)[fdcoeff + 1]
        den == RowDen(row)
        gamma == RowAbsSum(row, den)
        v == maxvel(maxvp, maxvs)
    IN  [a |-> BigMul(BigMul(BigOf(ValNum(DH)), BigOf(den)), BigOf(ValDen(v))),
         b |-> BigMul(BigMul(BigOf(gamma), BigOf(ValNum(v))), BigOf(ValDen(DH)))]

\* a margin taken on the inverse of the bound
safe_dt_inverse(dt) == [a |-> BigMulSmall(dt.b, 99, 0), b |-> BigMulSmall(dt.a, 100, 0)]

\* _dt = 0.99 * dt
safe_dt(dt) == [a |-> BigMulSmall(dt.a, 99, 0), b |-> BigMulSmall(dt.b, 100, 0)]

\* x >= c * 10^j, for x = [a, b] standing for a / (b * sqrt(2))
AtLeast(x, c, j) ==
    IF j < 0
    THEN BigLeq(BigMulSmall(BigSq(BigMul(x.b, BigOf(c))), 2, 0),
                BigTimesPow10(BigSq(x.a), 0 - 2 * j))
    ELSE BigLeq(BigMulSmall(BigTimesPow10(BigSq(BigMul(x.b, BigOf(c))), 2 * j), 2, 0),
                BigSq(x.a))

\* x > c * 10^j
Above(x, c, j) ==
    IF j < 0
    THEN ~BigLeq(BigTimesPow10(BigSq(x.a), 0 - 2 * j),
                 BigMulSmall(BigSq(BigMul(x.b, BigOf(c))), 2, 0))
    ELSE ~BigLeq(BigSq(x.a),
                 BigMulSmall(BigTimesPow10(BigSq(BigMul(x.b, BigOf(c))), 2 * j), 2, 0))

RECURSIVE FloorLog10Up(_, _)
FloorLog10Up(x, k) == IF AtLeast(x, 1, k + 1) THEN FloorLog10Up(x, k + 1) ELSE k

RECURSIVE FloorLog10Down(_, _)
FloorLog10Down(x, k) == IF AtLeast(x, 1, k) THEN k ELSE FloorLog10Down(x, k - 1)

\* x >= C * 10^j, for a natural number C of any size
AtLeastBig(x, C, j) ==
    IF j < 0
    THEN BigLeq(BigMulSmall(BigMul(BigMul(BigSq(x.b), C), C), 2, 0),
                BigTimesPow10(BigSq(x.a), 0 - 2 * j))
    ELSE BigLeq(BigMulSmall(BigTimesPow10(BigMul(BigMul(BigSq(x.b), C), C), 2 * j), 2, 0),
                BigSq(x.a))

RECURSIVE Log2Floor(_)
Log2Floor(n) == IF n < 2 THEN 0 ELSE 1 + Log2Floor(n \div 2)

\* ln(10) * 2^-53, in units of 10^-20 and rounded down: the relative distance
\* below 10 at which the logarithm is half a unit in the last place below 1
Ln10HalfUlp == 25563

\* the relative distance below 10^k, in units of 10^-20, within which the
\* double nearest to the logarithm is k: ln(10) times half the distance
\* between the doubles next to k on the side towards k - 1
Slack(k) ==
    IF k < 0 THEN Ln10HalfUlp * 2^Log2Floor(0 - k)
    ELSE IF k = 0 THEN 0
    ELSE IF k = 1 THEN Ln10HalfUlp \div 2
    ELSE Ln10HalfUlp * 2^Log2Floor(k - 1)

\* np.log10(x) is the double k, for an x below 10^k
RoundsTo(x, k) ==
    AtLeastBig(x, BigOf(Pow10(8) - Slack(k)) \o <<9999, 9999, 9999>>, k - 20)

\* np.log10(x) // 1
FloorLog10(x) ==
    LET floor(exact) == IF Slack(exact + 1) > 0 /\ RoundsTo(x, exact + 1) THEN exact + 1
                        ELSE exact
    IN  floor(IF AtLeast(x, 1, 0) THEN FloorLog10Up(x, 0) ELSE FloorLog10Down(x, -1))

\* endings without the quarter
endings_coarse == <<10, 20, 50, 80>>

\* possible endings of the time step
endings == <<10, 20, 25, 50, 80>>

\* a mask that keeps every ending
mask_all(_dt, exp10) == [i \in 1..Len(endings) |-> TRUE]

\* mask = [last2digits >= e for e in endings], with last2digits = _dt / 10^exp10
mask(_dt, exp10) == [i \in 1..Len(endings) |-> AtLeast(_dt, endings[i], exp10)]

\* the rounding of _dt: np.max of the endings the mask keeps, times _dt10;
\* np.max raises ValueError on an empty list.  A _dt of zero (DH = 0) or of
\* infinity (maxvel = 0) has no finite logarithm and the mask keeps nothing.
round_dt(_dt) ==
    LET largest(kept, exp10) ==
            IF kept = {} THEN [err |-> "ValueError", dt |-> NoneV]
            ELSE [err |-> "", dt |-> NormFloat(SetMax(kept), exp10)]
        rounded(exp10) ==
            largest({endings[i] : i \in {i \in 1..Len(endings) : mask(_dt, exp10)[i]}},
                    exp10)
    IN  IF _dt.a = <<>> \/ _dt.b = <<>> THEN [err |-> "ValueError", dt |-> NoneV]
        ELSE rounded(FloorLog10(_dt) - 1)

\* _check_stability(maxvp, maxvs) on an instance with these attributes
check_stability(max_relative_error, FD_ORDER, DH, maxvp, maxvs) ==
    round_dt(safe_dt(cfl_dt(max_relative_error, FD_ORDER, DH, maxvp, maxvs)))

(***************************************************************************)
(* The FWI workflow scheduler: add_fwi_stage and the two writers of the    *)
(* workflow file.  A stage is the dict para, a function from keys to       *)
(* values.                                                                 *)
(***************************************************************************)
\* the defaults of the keyword arguments of add_fwi_stage
stage_defaults ==
    ("pro" :> FloatV(1, -2)) @@ ("time_filt" :> IntV(1)) @@ ("fc_low" :> FloatV(0, 0))
    @@ ("fc_high" :> FloatV(5, 0)) @@ ("order" :> IntV(6)) @@ ("time_win" :> IntV(0))
    @@ ("gamma" :> IntV(20)) @@ ("twin_minus" :> FloatV(0, 0))
    @@ ("twin_plus" :> FloatV(0, 0)) @@ ("inv_vp_iter" :> IntV(0))
    @@ ("inv_vs_iter" :> IntV(0)) @@ ("inv_rho_iter" :> IntV(0))
    @@ ("inv_qs_iter" :> IntV(0)) @@ ("spatfilter" :> IntV(0))
    @@ ("wd_damp" :> FloatV(5, -1)) @@ ("wd_damp1" :> FloatV(5, -1))
    @@ ("e_precond" :> IntV(3)) @@ ("lnorm" :> IntV(2)) @@ ("stf" :> IntV(0))
    @@ ("offsetc_stf" :> FloatV(-4, 0)) @@ ("eps_stf" :> FloatV(1, -1))
    @@ ("normalize" :> IntV(0)) @@ ("offset_mute" :> IntV(0)) @@ ("offsetc" :> IntV(10))
    @@ ("scale_rho" :> FloatV(5, -1)) @@ ("scale_qs" :> FloatV(1, 0))
    @@ ("env" :> IntV(1)) @@ ("n_order" :> IntV(0))

\* the dict para that add_fwi_stage(**kwargs) appends
stage_para(kwargs) ==
    LET para(a) ==
        ("PRO" :> a["pro"]) @@ ("TIME_FILT" :> a["time_filt"]) @@ ("FC_LOW" :> a["fc_low"])
        @@ ("FC_HIGH" :> a["fc_high"]) @@ ("ORDER" :> a["order"])
        @@ ("TIME_WIN" :> a["time_win"]) @@ ("GAMMA" :> a["gamma"])
        @@ ("TWIN-" :> a["twin_minus"]) @@ ("TWIN+" :> a["twin_plus"])
        @@ ("INV_VP_ITER" :> a["inv_vp_iter"]) @@ ("INV_VS_ITER" :> a["inv_vs_iter"])
        @@ ("INV_RHO_ITER" :> a["inv_rho_iter"]) @@ ("INV_QS_ITER" :> a["inv_qs_iter"])
        @@ ("SPATFILTER" :> a["spatfilter"]) @@ ("WD_DAMP" :> a["wd_damp"])
        @@ ("WD_DAMP1" :> a["wd_damp1"]) @@ ("EPRECOND" :> a["e_precond"])
        @@ ("LNORM" :> a["lnorm"]) @@ ("STF" :> a["stf"])
        @@ ("OFFSETC_STF" :> a["offsetc_stf"]) @@ ("EPS_STF" :> a["eps_stf"])
        @@ ("NORMALIZE" :> a["normalize"]) @@ ("OFFSET_MUTE" :> a["offset_mute"])
        @@ ("OFFSETC" :> a["offsetc"]) @@ ("SCALERHO" :> a["scale_rho"])
        @@ ("SCALEQS" :> a["scale_qs"]) @@ ("ENV" :> a["env"]) @@ ("N_ORDER" :> a["n_order"])
    IN  para(kwargs @@ stage_defaults)

\* the text _write_denise_workflow_header writes
workflow_header ==
    "PRO \t TIME_FILT \t FC_low \t FC_high \t ORDER \t TIME_WIN \t"
    \o " GAMMA \t TWIN- \t TWIN+ \t INV_VP_ITER \t INV_VS_ITER \t"
    \o " INV_RHO_ITER \t INV_QS_ITER \t SPATFILTER \t WD_DAMP \t WD_DAMP1"
    \o " \t EPRECOND \t LNORM \t STF_INV \t OFFSETC_STF \t EPS_STF \t NORMALIZE"
    \o " \t OFFSET_MUTE \t OFFSETC \t SCALERHO \t SCALEQS \t ENV \t GAMMA_GRAV \t N_ORDER \n"

\* a NORMALIZE column taken from the stage
normalize_of_stage(stage) == Str(stage["NORMALIZE"])

\* the two columns _write_denise_workflow fills with the literal "0"
normalize_column(stage) == "0"

gamma_grav_column(stage) == "0"

\* the text _write_denise_workflow appends for a stage
workflow_row(stage) ==
    LET names == <<"PRO", "TIME_FILT", "FC_LOW", "FC_HIGH", "ORDER", "TIME_WIN", "GAMMA",
                   "TWIN-", "TWIN+", "INV_VP_ITER", "INV_VS_ITER", "INV_RHO_ITER",
                   "INV_QS_ITER", "SPATFILTER", "WD_DAMP", "WD_DAMP1", "EPRECOND",
                   "LNORM", "STF", "OFFSETC_STF", "EPS_STF", "NORMALIZE", "OFFSET_MUTE",
                   "OFFSETC", "SCALERHO", "SCALEQS", "ENV", "GAMMA_GRAV", "N_ORDER">>
    IN  Join([i \in 1..Len(names) |->
                 (IF names[i] = "NORMALIZE" THEN normalize_column(stage)
                  ELSE IF names[i] = "GAMMA_GRAV" THEN gamma_grav_column(stage)
                  ELSE Str(stage[names[i]]))
                 \o (IF i < Len(names) THEN "\t" ELSE "\n")])

(***************************************************************************)
(* The file system and the console, as the instance sees them.  disk maps  *)
(* the path of each file to its content, dirs is the set of directories    *)
(* that exist, and an event is one observable effect of a call.            *)
(***************************************************************************)
Event(ev, arg) == [ev |-> ev, arg |-> arg]

\* os.path.join(a, b) for a relative b
PathJoin(a, b) ==
    IF a = "" \/ Char(a, Len(a)) = "/" THEN a \o b ELSE a \o "/" \o b

\* the directory a path lies in, with its trailing slash
Dirname(path) ==
    IF Contains(path, "/") THEN SubSeq(path, 1, SetMax(IndexesOf(path, "/"))) ELSE ""

\* the sub-folders _create_folders makes
folders ==
    {"start", "su", "receiver", "source", "snap", "log", "wavelet",
     "jacobian", "model", "gravity", "picked_times", "trace_kill"}

\* the directories that exist after _create_folders(save_path)
create_folders(save_path) ==
    {PathJoin(save_path, "")} \cup {PathJoin(save_path, f \o "/") : f \in folders}

\* a write that keeps what the file holds and adds the content at its end
write_file_append(S, path, content) ==
    IF S.err # "" THEN S
    ELSE IF Dirname(path) \notin S.dirs THEN [S EXCEPT !.err = "FileNotFoundError"]
    ELSE [S EXCEPT !.disk = (path :> (IF path \in DOMAIN @ THEN @[path] ELSE "") \o content)
                                @@ @,
                   !.trace = Append(@, Event("write", path))]

\* open(path, mode='w') ... write(content) ... close(): the state after it, or
\* FileNotFoundError when the directory is missing
write_file(S, path, content) ==
    IF S.err # "" THEN S
    ELSE IF Dirname(path) \notin S.dirs THEN [S EXCEPT !.err = "FileNotFoundError"]
    ELSE [S EXCEPT !.disk = (path :> content) @@ @,
                   !.trace = Append(@, Event("write", path))]

\* open(path, mode='a') ... write(content) ... close()
append_file(S, path, content) ==
    IF S.err # "" THEN S
    ELSE IF Dirname(path) \notin S.dirs THEN [S EXCEPT !.err = "FileNotFoundError"]
    ELSE [S EXCEPT !.disk = (path :> (IF path \in DOMAIN @ THEN @[path] ELSE "") \o content)
                                @@ @,
                   !.trace = Append(@, Event("write", path))]

(***************************************************************************)
(* The Denise instance.  S is the state a method runs on:                  *)
(*   attrs       the parameter attributes of the instance (its __dict__)   *)
(*   inp_file    self._inp_file, the lines of the parameter file           *)
(*   map_args    self._map_args, name -> 1-based line number               *)
(*   fwi_stages  self.fwi_stages                                           *)
(*   model       self.model                                                *)
(*   disk, dirs  the file system                                           *)
(*   trace       the events of the call in progress                        *)
(*   err         "" or the exception that ended the call                   *)
(* A step whose predecessor raised leaves the state alone.                 *)
(***************************************************************************)
root_denise == "./"

\* the dict p that set_paths builds
paths(save_folder, s) ==
    LET route(old_path) == StrV(PathJoin(save_folder, old_path))
    IN  ("DATA_DIR" :> route("su/" \o s)) @@ ("filename" :> route(s \o ".inp"))
        @@ ("filename_workflow" :> route(s \o "_fwi.inp"))
        @@ ("MFILE" :> route("start/model"))
        @@ ("SEIS_FILE_VX" :> route("su/" \o s \o "_x.su"))
        @@ ("SEIS_FILE_VY" :> route("su/" \o s \o "_y.su"))
        @@ ("SEIS_FILE_CURL" :> route("su/" \o s \o "_rot.su"))
        @@ ("SEIS_FILE_DIV" :> route("su/" \o s \o "_div.su"))
        @@ ("SEIS_FILE_P" :> route("su/" \o s \o "_p.su"))
        @@ ("REC_FILE" :> route("receiver/receivers"))
        @@ ("SOURCE_FILE" :> route("source/sources.dat"))
        @@ ("SIGNAL_FILE" :> route("wavelet/wavelet_" \o s))
        @@ ("SNAP_FILE" :> route("snap/waveform_forward"))
        @@ ("LOG_FILE" :> route("log/" \o s \o ".log"))
        @@ ("JACOBIAN" :> route("jacobian/gradient_Test"))
        @@ ("MISFIT_LOG_FILE" :> route(s \o "_fwi_log.dat"))
        @@ ("INV_MODELFILE" :> route("model/modelTest"))
        @@ ("TRKILL_FILE" :> route("trace_kill/trace_kill.dat"))
        @@ ("PICKS_FILE" :> route("picked_times/picks_"))
        @@ ("DATA_DIR_T0" :> route("su/CAES_spike_time_0/" \o s \o "_CAES"))
        @@ ("DFILE" :> route("gravity/background_density.rho"))

set_paths(S, makedirs) ==
    IF S.err # "" THEN S
    ELSE LET S1 == IF makedirs
                   THEN [S EXCEPT !.dirs = @ \cup create_folders(S.attrs["save_folder"].s),
                                  !.trace = Append(@, Event("makedirs",
                                                            S.attrs["save_folder"].s))]
                   ELSE S
         IN  [S1 EXCEPT !.attrs = paths(S.attrs["save_folder"].s,
                                        S.attrs["SEIS_FILE_NAME"].s) @@ @]

\* set_model for a Model argument
set_model(S, model) ==
    IF S.err # "" THEN S
    ELSE [S EXCEPT !.attrs = ("NY" :> IntV(model.shape[1])) @@ ("NX" :> IntV(model.shape[2]))
                                 @@ ("DH" :> model.dx) @@ @,
                   !.model = model]

\* a[np.nonzero(a)] for the cell values a
nonzero(a) == {v \in a : v.n # 0}

\* np.max of a non-empty set of values
ValMax(A) == CHOOSE x \in A : \A y \in A : ~ValLess(x, y)

\* the bytes _write_binary stores for an array, as text: the shape and the cell values
RECURSIVE CellsStr(_)
CellsStr(A) ==
    IF A = {} THEN ""
    ELSE " " \o Str(ValMax(A)) \o CellsStr(A \ {ValMax(A)})

binary(shape, cells) ==
    NatToStr(shape[1]) \o "x" \o NatToStr(shape[2]) \o ":" \o CellsStr(cells)

write_model(S) ==
    write_file(write_file(write_file(S,
        S.attrs["MFILE"].s \o ".vp", binary(S.model.shape, S.model.vp)),
        S.attrs["MFILE"].s \o ".vs", binary(S.model.shape, S.model.vs)),
        S.attrs["MFILE"].s \o ".rho", binary(S.model.shape, S.model.rho))

\* _check_max_frequency changes nothing; np.min raises ValueError when an array
\* has no non-zero cell
check_max_frequency(S) ==
    IF S.err # "" THEN S
    ELSE IF nonzero(S.model.vs) = {} \/ nonzero(S.model.vp) = {}
    THEN [S EXCEPT !.err = "ValueError"]
    ELSE S

\* a check whose assertion never fails
check_passes(attrs, s) == ""

\* check(s) of _check_domain_decomp: "" when the assertion holds
check(attrs, s) ==
    IF attrs["NPROC" \o s].n = 0 THEN "ZeroDivisionError"
    ELSE IF attrs["N" \o s].n % attrs["NPROC" \o s].n = 0 THEN ""
    ELSE "AssertionError"

\* a validator that looks at the x axis alone
domain_decomp_x(attrs) == check(attrs, "X")

\* for xy in ['X', 'Y']: check(xy)
domain_decomp(attrs) ==
    IF check(attrs, "X") # "" THEN check(attrs, "X") ELSE check(attrs, "Y")

check_domain_decomp(S) ==
    IF S.err # "" THEN S
    ELSE LET checked(e) == [S EXCEPT !.err = e,
                                     !.trace = Append(@, Event("check_domain_decomp", e))]
         IN  checked(domain_decomp(S.attrs))

\* int(TIME / DT)
int_div(time, dt) ==
    IntV((ValNum(time) * ValDen(dt)) \div (ValDen(time) * ValNum(dt)))

\* a time-step block that takes the configured limits in every mode
time_step_from_limits(S) ==
    IF S.err # "" THEN S
    ELSE LET set(r) == IF r.err # "" THEN [S EXCEPT !.err = r.err]
                       ELSE [S EXCEPT !.attrs = ("DT" :> r.dt) @@ @]
         IN  set(check_stability(S.attrs["max_relative_error"].n, S.attrs["FD_ORDER"].n,
                                 S.attrs["DH"], S.attrs["VPUPPERLIM"],
                                 S.attrs["VSUPPERLIM"]))

\* a time-step block that computes DT in every run, whether DT is set or not
time_step_always(S) ==
    IF S.err # "" THEN S
    ELSE IF S.attrs["MODE"].n >= 1 THEN time_step_from_limits(S)
    ELSE LET set(r) ==
                 IF r.err # "" THEN [S EXCEPT !.err = r.err]
                 ELSE [S EXCEPT !.attrs = ("DT" :> r.dt)
                                    @@ ("NT" :> int_div(S.attrs["TIME"], r.dt)) @@ @]
         IN  set(check_stability(
                     S.attrs["max_relative_error"].n, S.attrs["FD_ORDER"].n, S.attrs["DH"],
                     ValMax(nonzero(S.model.vp)), ValMax(nonzero(S.model.vs))))

\* a time-step block that sets NT together with DT in every mode
time_step_counting(S) ==
    IF S.err # "" THEN S
    ELSE IF S.attrs["MODE"].n >= 1 /\ S.attrs["DT"] # NoneV THEN S
    ELSE LET from_model == S.attrs["MODE"].n < 1
             set(r) ==
                 IF r.err # "" THEN [S EXCEPT !.err = r.err]
                 ELSE [S EXCEPT !.attrs = ("DT" :> r.dt)
                                    @@ ("NT" :> int_div(S.attrs["TIME"], r.dt)) @@ @]
         IN  set(check_stability(
                     S.attrs["max_relative_error"].n, S.attrs["FD_ORDER"].n, S.attrs["DH"],
                     IF from_model THEN ValMax(nonzero(S.model.vp)) ELSE S.attrs["VPUPPERLIM"],
                     IF from_model THEN ValMax(nonzero(S.model.vs)) ELSE S.attrs["VSUPPERLIM"]))

\* the time-step block of _engine: if self.MODE < 1 the velocities are the
\* largest non-zero cells of the model and NT is set with DT; elif self.DT is
\* None they are the configured limits; otherwise DT stays
time_step(S) ==
    IF S.err # "" THEN S
    ELSE IF S.attrs["MODE"].n >= 1 /\ S.attrs["DT"] # NoneV THEN S
    ELSE LET from_model == S.attrs["MODE"].n < 1
             set(r) ==
                 IF r.err # "" THEN [S EXCEPT !.err = r.err]
                 ELSE IF from_model
                 THEN [S EXCEPT !.attrs = ("DT" :> r.dt)
                                    @@ ("NT" :> int_div(S.attrs["TIME"], r.dt)) @@ @]
                 ELSE [S EXCEPT !.attrs = ("DT" :> r.dt) @@ @]
         IN  set(check_stability(
                     S.attrs["max_relative_error"].n, S.attrs["FD_ORDER"].n, S.attrs["DH"],
                     IF from_model THEN ValMax(nonzero(S.model.vp)) ELSE S.attrs["VPUPPERLIM"],
                     IF from_model THEN ValMax(nonzero(S.model.vs)) ELSE S.attrs["VSUPPERLIM"]))

\* '{:W.Pf}'.format(v) for a value with at most `places` decimals
Fixed(v, places) ==
    LET scaled == Abs(v.n) * Pow10(v.e + places)
        ds == NatToStr(scaled)
        padded == Zeros(places + 1 - Len(ds)) \o ds
        k == Len(padded) - places
    IN  (IF v.n < 0 THEN "-" ELSE "") \o SubSeq(padded, 1, k)
            \o (IF places > 0 THEN "." \o SubSeq(padded, k + 1, Len(padded)) ELSE "")

\* Sources(x, y): the attributes _set_default_source derives
Sources(x, y) ==
    [x |-> x, y |-> y,
     z |-> [i \in DOMAIN x |-> FloatV(0, 0)],
     nshot |-> Len(y),
     td |-> [i \in DOMAIN x |-> FloatV(0, 0)],
     fc |-> [i \in DOMAIN x |-> FloatV(8, 0)],
     amp |-> [i \in DOMAIN x |-> FloatV(1, 0)],
     angle |-> [i \in DOMAIN x |-> FloatV(0, 0)],
     src_type |-> [i \in DOMAIN x |-> FloatV(1, 0)]]

\* Receivers(x, y)
Receivers(x, y) == [x |-> x, y |-> y]

RECURSIVE rec_rows(_, _)
\* np.savetxt(..., fmt='%4.3f %4.3f') of the receiver positions, from row i on
rec_rows(rec_, i) ==
    IF i > Len(rec_.x) THEN ""
    ELSE Fixed(rec_.x[i], 3) \o " " \o Fixed(rec_.y[i], 3) \o "\n" \o rec_rows(rec_, i + 1)

RECURSIVE src_rows(_, _)
\* the rows of the source file, from source i on
src_rows(src_, i) ==
    IF i > src_.nshot THEN ""
    ELSE Fixed(src_.x[i], 2) \o "\t" \o Fixed(src_.z[i], 2) \o "\t" \o Fixed(src_.y[i], 2)
         \o "\t" \o Fixed(src_.td[i], 2) \o "\t" \o Fixed(src_.fc[i], 2)
         \o "\t" \o Fixed(src_.amp[i], 2) \o "\t" \o Fixed(src_.angle[i], 2)
         \o "\t" \o Str(src_.src_type[i]) \o "\t" \o "\n" \o src_rows(src_, i + 1)

RECURSIVE npy(_)
\* np.save of a vector, as text
npy(a) == IF a = <<>> THEN "" ELSE Str(Head(a)) \o " " \o npy(Tail(a))

\* _write_src_rec(src_, rec_); the source positions saved are those of rec_
write_src_rec(S, src_, rec_) ==
    IF S.err # "" THEN S
    ELSE LET rec_dir == Dirname(S.attrs["REC_FILE"].s)
             src_dir == Dirname(S.attrs["SOURCE_FILE"].s)
             saved(a) == [i \in 1..4 |-> npy(a[i])]
             arrays == saved(<<rec_.x, rec_.y, rec_.x, rec_.y>>)
         IN  write_file(write_file(write_file(write_file(write_file(write_file(S,
                 S.attrs["REC_FILE"].s \o ".dat", rec_rows(rec_, 1)),
                 S.attrs["SOURCE_FILE"].s, NatToStr(src_.nshot) \o "\n" \o src_rows(src_, 1)),
                 rec_dir \o "rec_x.npy", arrays[1]),
                 rec_dir \o "rec_y.npy", arrays[2]),
                 src_dir \o "src_x.npy", arrays[3]),
                 src_dir \o "src_y.npy", arrays[4])

RECURSIVE streamer_loop(_, _, _, _, _)
\* for isrc in range(isrc, src.nsrc + 1) of the streamer branch
streamer_loop(S, src, rec, rec_filename, isrc) ==
    IF S.err # "" \/ isrc > Len(src.x) THEN S
    ELSE streamer_loop(
             write_src_rec([S EXCEPT !.attrs = ("REC_FILE" :>
                                StrV(rec_filename \o "_shot_" \o NatToStr(isrc))) @@ @],
                           src, rec),
             src, rec, rec_filename, isrc + 1)

\* the source/receiver block of _engine
write_sources_receivers(S, src, rec) ==
    IF S.err # "" THEN S
    ELSE IF S.attrs["N_STREAMER"].n > 0
    THEN LET rec_filename == S.attrs["REC_FILE"]
             restored(S1) == IF S1.err # "" THEN S1
                             ELSE [S1 EXCEPT !.attrs = ("REC_FILE" :> rec_filename) @@ @]
         IN  restored(streamer_loop([S EXCEPT !.attrs = ("READREC" :> IntV(2)) @@ @],
                                    src, rec, rec_filename.s, 1))
    ELSE write_src_rec(S, src, rec)

\* _write_inp_file(write): the loop rewrites self._inp_file in place
write_inp_file(S, write) ==
    IF S.err # "" THEN S
    ELSE LET out(c) ==
                 IF write THEN write_file([S EXCEPT !.inp_file = c],
                                          S.attrs["filename"].s, Join(c))
                 ELSE [S EXCEPT !.inp_file = c,
                                !.trace = Append(@, Event("print", Join(c) \o "\n"))]
         IN  out(write_lines(S.inp_file, S.map_args, S.attrs))

\* the command _cmd runs; run_command = "" stands for None
command(attrs, run_command) ==
    (IF run_command # "" THEN run_command
     ELSE "mpirun -np " \o Str(IntV(attrs["NPROCX"].n * attrs["NPROCY"].n))) \o " "
    \o " " \o PathJoin(root_denise, "bin/denise ")
    \o " " \o attrs["filename"].s
    \o " " \o attrs["filename_workflow"].s

launch(S, run_command, disable) ==
    IF S.err # "" \/ disable THEN S
    ELSE [S EXCEPT !.trace = Append(@, Event("launch", command(S.attrs, run_command)))]

\* an _engine that launches the solver before it writes the parameter file
engine_launch_early(S, model, src, rec, run_command, disable) ==
    IF S.err # "" THEN S ELSE
    LET counted(S1) == IF S1.err # "" THEN S1
                       ELSE [S1 EXCEPT !.attrs = ("NREC" :> IntV(Len(rec.x)))
                                                     @@ ("NSRC" :> IntV(Len(src.x))) @@ @]
    IN  write_inp_file(
        launch(
        write_sources_receivers(
        write_model(
        time_step(
        check_domain_decomp(
        check_max_frequency(
        counted(
        set_model(
        set_paths([S EXCEPT !.trace = Append(@, Event("_engine", ""))], TRUE),
        model)))))), src, rec), run_command, disable), TRUE)

\* _engine(model, src, rec, run_command, disable)
engine(S, model, src, rec, run_command, disable) ==
    IF S.err # "" THEN S ELSE
    LET counted(S1) == IF S1.err # "" THEN S1
                       ELSE [S1 EXCEPT !.attrs = ("NREC" :> IntV(Len(rec.x)))
                                                     @@ ("NSRC" :> IntV(Len(src.x))) @@ @]
    IN  launch(
        write_inp_file(
        write_sources_receivers(
        write_model(
        time_step(
        check_domain_decomp(
        check_max_frequency(
        counted(
        set_model(
        set_paths([S EXCEPT !.trace = Append(@, Event("_engine", ""))], TRUE),
        model)))))), src, rec), TRUE), run_command, disable)

\* forward(model, src, rec, run_command, disable)
forward(S, model, src, rec, run_command, disable) ==
    engine([S EXCEPT !.attrs = ("MODE" :> IntV(0)) @@ @],
           model, src, rec, run_command, disable)

RECURSIVE write_stages(_, _)
\* for i, stage in enumerate(self.fwi_stages): self._write_denise_workflow(stage)
write_stages(S, i) ==
    IF i > Len(S.fwi_stages) THEN S
    ELSE write_stages(append_file(S, S.attrs["filename_workflow"].s,
                                  workflow_row(S.fwi_stages[i])), i + 1)

warning == "WARNING! Denise.fwi_stages is empty! Append api.StageFWI() to it."

\* an fwi that warns of an empty schedule and runs all the same
fwi_unguarded(S, model, src, rec, run_command, disable) ==
    LET S1 == [S EXCEPT !.attrs = ("MODE" :> IntV(1)) @@ @,
                        !.trace = IF Len(S.fwi_stages) > 0 THEN @
                                  ELSE Append(@, Event("print", warning \o "\n"))]
    IN  engine(write_stages(write_file(S1, S1.attrs["filename_workflow"].s,
                                       workflow_header), 1),
               model, src, rec, run_command, disable)

\* an fwi that forgets the time step when it refuses an empty schedule
fwi_forgetful(S, model, src, rec, run_command, disable) ==
    LET S1 == [S EXCEPT !.attrs = ("MODE" :> IntV(1)) @@ @]
    IN  IF Len(S1.fwi_stages) > 0
        THEN engine(write_stages(write_file(S1, S1.attrs["filename_workflow"].s,
                                            workflow_header), 1),
                    model, src, rec, run_command, disable)
        ELSE [S1 EXCEPT !.attrs = ("DT" :> NoneV) @@ ("NT" :> NoneV) @@ @,
                        !.trace = Append(@, Event("print", warning \o "\n"))]

\* fwi(model, src, rec, run_command, disable)
fwi(S, model, src, rec, run_command, disable) ==
    LET S1 == [S EXCEPT !.attrs = ("MODE" :> IntV(1)) @@ @]
    IN  IF Len(S1.fwi_stages) > 0
        THEN engine(write_stages(write_file(S1, S1.attrs["filename_workflow"].s,
                                            workflow_header), 1),
                    model, src, rec, run_command, disable)
        ELSE [S1 EXCEPT !.trace = Append(@, Event("print", warning \o "\n"))]

\* help()
help(S) == write_inp_file(S, FALSE)

\* a scheduler that puts the new stage first
add_fwi_stage_first(S, kwargs) == [S EXCEPT !.fwi_stages = <<stage_para(kwargs)>> \o @]

\* add_fwi_stage(**kwargs)
add_fwi_stage(S, kwargs) == [S EXCEPT !.fwi_stages = Append(@, stage_para(kwargs))]

\* Model(): every component None
EmptyModel == [shape |-> <<0, 0>>, vp |-> {}, vs |-> {}, rho |-> {}, dx |-> NoneV]

\* Denise(root_denise): the instance __init__ builds from the lines c of
\* par/DENISE_marm_OBC.inp, or the exception _parse_inp_file raises
init(c, dirs0) ==
    LET S0(parsed) ==
              [attrs |-> ("save_folder" :> StrV("./outputs/"))
                             @@ ("SEIS_FILE_NAME" :> StrV("seis"))
                             @@ ("DT" :> NoneV) @@ ("NT" :> NoneV) @@ parsed.para,
               inp_file |-> c,
               map_args |-> parsed.map_args,
               fwi_stages |-> <<>>,
               model |-> EmptyModel,
               disk |-> [x \in {} |-> ""],
               dirs |-> dirs0,
               trace |-> <<>>,
               err |-> IF parsed.status = "ok" THEN "" ELSE parsed.status]
    IN  set_paths(S0(parse_inp_file(c)), FALSE)

(***************************************************************************)
(* The inputs the behaviours draw from.                                    *)
(***************************************************************************)
\* the number of calls made on an instance in one behaviour
MaxCalls == 4

\* a parameter file in the format of par/DENISE_marm_OBC.inp, holding the
\* parameters the orchestrator reads
ParFile ==
    <<"# PARAMETER FILE FOR DENISE\n",
      "(forward_modelling_only=0;FWI=1;RTM=2)_(MODE) = 0\n",
      "number_of_processors_in_x-direction_(NPROCX) = 5\n",
      "number_of_processors_in_y-direction_(NPROCY) = 3\n",
      "FD_ORDER = 2\n",
      "max_relative_error = 0\n",
      "number_of_gridpoints_in_x-direction_(NX) = 500\n",
      "number_of_gridpoints_in_y-direction_(NY) = 174\n",
      "distance_between_gridpoints(in_m)_(DH) = 20.0\n",
      "time_of_wave_propagation_(in_sec)_(TIME) = 6.0\n",
      "timestep_(in_seconds)_(DT) = 2.0e-3\n",
      "streamer_(N_STREAMER) = 0\n",
      "model_(MFILE) = start/marmousi_II_marine\n",
      "(VPUPPERLIM) = 6000\n",
      "(VSUPPERLIM) = 4000\n">>

\* velocity models, as api.Model(vp, vs, rho, dx): the shape (ny, nx) and the
\* values the cells of each array take
ModelDemo ==
    [shape |-> <<174, 500>>, vp |-> {FloatV(35, 2)}, vs |-> {FloatV(20588, -1)},
     rho |-> {FloatV(18, 2)}, dx |-> IntV(20)]

ModelFast ==
    [shape |-> <<174, 500>>, vp |-> {FloatV(6, 3), FloatV(15, 2)},
     vs |-> {FloatV(0, 0), FloatV(3, 3)}, rho |-> {FloatV(1, 3), FloatV(22, 2)},
     dx |-> IntV(20)]

ModelWideX ==
    [shape |-> <<174, 501>>, vp |-> {FloatV(35, 2)}, vs |-> {FloatV(20588, -1)},
     rho |-> {FloatV(18, 2)}, dx |-> IntV(20)]

ModelDeepY ==
    [shape |-> <<175, 500>>, vp |-> {FloatV(35, 2)}, vs |-> {FloatV(20588, -1)},
     rho |-> {FloatV(18, 2)}, dx |-> IntV(20)]

Src == Sources(<<FloatV(8, 2)>>, <<FloatV(4, 1)>>)

Rec == Receivers(<<FloatV(8, 2), FloatV(82, 1)>>, <<FloatV(46, 1), FloatV(46, 1)>>)

\* the arguments of the forward calls and of the fwi calls
ForwardArgs ==
    {[model |-> ModelDemo, disable |-> FALSE],
     [model |-> ModelWideX, disable |-> FALSE],
     [model |-> ModelFast, disable |-> TRUE]}

FwiArgs ==
    {[model |-> ModelDemo, disable |-> FALSE],
     [model |-> ModelDeepY, disable |-> FALSE]}

\* the keyword arguments of the add_fwi_stage calls
StageKwargs ==
    {("fc_high" :> IntV(5)),
     ("fc_high" :> IntV(2)) @@ ("normalize" :> IntV(1))}

\* the attribute assignments made between the runs
Assignments ==
    {[name |-> "VPUPPERLIM", value |-> IntV(3000)],
     [name |-> "save_folder", value |-> StrV("./out_f=5/")]}

(***************************************************************************)
(* The state machine.  pc is "new" before Denise(...) is called, "ready"   *)
(* once the instance exists and "failed" when the constructor raised.      *)
(* hist lists the calls made so far and pre is the state the last of them  *)
(* started from; both are history variables.  stab holds the input and the *)
(* result of a stand-alone stability computation.                          *)
(***************************************************************************)
VARIABLES text, pc, attrs, inp_file, map_args, fwi_stages, model, disk, dirs,
          trace, err, hist, pre, stab

vars == <<text, pc, attrs, inp_file, map_args, fwi_stages, model, disk, dirs,
          trace, err, hist, pre, stab>>

Self ==
    [attrs |-> attrs, inp_file |-> inp_file, map_args |-> map_args,
     fwi_stages |-> fwi_stages, model |-> model, disk |-> disk, dirs |-> dirs,
     trace |-> trace, err |-> err]

\* before the constructor there is no instance
Nothing ==
    [attrs |-> EmptyDict, inp_file |-> <<>>, map_args |-> EmptyDict, fwi_stages |-> <<>>,
     model |-> EmptyModel, disk |-> [x \in {} |-> ""], dirs |-> {}, trace |-> <<>>,
     err |-> ""]

\* the state the call starts from: the events and the exception of the call before
\* are gone
Entry == [Self EXCEPT !.trace = <<>>, !.err = ""]

Becomes(S) ==
    /\ attrs' = S.attrs
    /\ inp_file' = S.inp_file
    /\ map_args' = S.map_args
    /\ fwi_stages' = S.fwi_stages
    /\ model' = S.model
    /\ disk' = S.disk
    /\ dirs' = S.dirs
    /\ trace' = S.trace
    /\ err' = S.err

\* no stability computation asked for, and its result not yet there
NoInput == [max_relative_error |-> 0, FD_ORDER |-> 0, DH |-> NoneV, maxvp |-> NoneV,
            maxvs |-> NoneV]

Pending == [err |-> "pending", dt |-> NoneV]

Called(call) ==
    /\ pc = "ready"
    /\ Len(hist) < MaxCalls
    /\ hist' = Append(hist, call)
    /\ pre' = Self
    /\ UNCHANGED <<text, pc, stab>>

Blank(c, d) ==
    /\ text = c
    /\ pc = "new"
    /\ stab = [in |-> NoInput, out |-> Pending]
    /\ attrs = EmptyDict
    /\ inp_file = <<>>
    /\ map_args = EmptyDict
    /\ fwi_stages = <<>>
    /\ model = EmptyModel
    /\ disk = [x \in {} |-> ""]
    /\ dirs = d
    /\ trace = <<>>
    /\ err = ""
    /\ hist = <<>>
    /\ pre = Nothing

\* the output directory is absent, or left by an earlier session
Init == \E d \in {{}, create_folders("./outputs/")} : Blank(ParFile, d)

\* d = Denise('./')
Construct ==
    /\ pc = "new"
    /\ \E S \in {init(text, dirs)} :
           /\ Becomes(S)
           /\ pc' = IF S.err = "" THEN "ready" ELSE "failed"
    /\ UNCHANGED <<text, hist, pre, stab>>

\* d.forward(model, src, rec, disable=...)
Forward ==
    \E a \in ForwardArgs :
        /\ Called([op |-> "forward", arg |-> a])
        /\ Becomes(forward(Entry, a.model, Src, Rec, "", a.disable))

\* d.fwi(model, src, rec, disable=...)
Fwi ==
    \E a \in FwiArgs :
        /\ Called([op |-> "fwi", arg |-> a])
        /\ Becomes(fwi(Entry, a.model, Src, Rec, "", a.disable))

\* d.add_fwi_stage(**kwargs)
AddFwiStage ==
    \E kwargs \in StageKwargs :
        /\ Called([op |-> "add_fwi_stage", arg |-> kwargs])
        /\ Becomes(add_fwi_stage(Entry, kwargs))

\* d.NAME = value
SetAttr ==
    \E a \in Assignments :
        /\ Called([op |-> "setattr",
                   arg |-> [name |-> a.name, value |-> a.value, old |-> attrs[a.name]]])
        /\ Becomes([Entry EXCEPT !.attrs = (a.name :> a.value) @@ @])

Next == Construct \/ Forward \/ Fwi \/ AddFwiStage \/ SetAttr

Spec == Init /\ [][Next]_vars

(***************************************************************************)
(* The parameter registry on its own: the constructor reads any of a set   *)
(* of short parameter files, then parameters are assigned and the file is  *)
(* printed (help) or written (_write_inp_file) in any order.               *)
(***************************************************************************)
\* lines of a parameter file: a comment, parameters named in parentheses and
\* by the text before '=', a repeated name, values not in the form str gives
\* them, a '=' inside the description, a parameter the constructor resets, a
\* line that ends the parse, a line with parentheses and no '=', and a blank line
Pool ==
    {"# c\n", "(NX) = 5\n", "A = 1\n", "A =7\n", "(m=0)_(MODE) = 0\n", "F = 1.50\n",
     "S = ab\n", "(DT) = 2.0e-3\n", "end\n", "x (Q)\n", "\n"}

\* a last line may lack its newline
LastPool == Pool \cup {"B = 2"}

TextsOf(first) ==
    {<<a>> : a \in LastPool} \cup {<<a, b>> : a \in first, b \in LastPool}

Texts == TextsOf(Pool)

\* the values assigned to tracked parameters
ParamValues == {IntV(9), StrV("a=b")}

InitReg == \E c \in Texts : Blank(c, create_folders("./outputs/"))

\* d.NAME = value, for a parameter of the file
SetParam ==
    \E name \in DOMAIN map_args, value \in ParamValues :
        /\ Called([op |-> "setattr",
                   arg |-> [name |-> name, value |-> value, old |-> attrs[name]]])
        /\ Becomes([Entry EXCEPT !.attrs = (name :> value) @@ @])

\* d.help()
Help ==
    /\ Called([op |-> "help", arg |-> ""])
    /\ Becomes(help(Entry))

\* d._write_inp_file()
WriteInpFile ==
    /\ Called([op |-> "_write_inp_file", arg |-> ""])
    /\ Becomes(write_inp_file(Entry, TRUE))

NextReg == Construct \/ SetParam \/ Help \/ WriteInpFile

SpecReg == InitReg /\ [][NextReg]_vars

(***************************************************************************)
(* The stability analysis on its own: _check_stability on an instance with *)
(* the given accuracy class, FD_ORDER and DH, for given maximum velocities.*)
(***************************************************************************)
\* a fine grid: DH = 0.323691057 and max_vp = 2265.953 with the second-order
\* Taylor operator, for which 0.99 * dt is 1e-4 * (1 - 5.8e-16)
FineGrid ==
    [max_relative_error |-> 0, FD_ORDER |-> 2, DH |-> FloatV(323691057, -9),
     maxvp |-> FloatV(2265953, -3), maxvs |-> IntV(1300)]

StabInputs ==
    [max_relative_error : 0..4,
     FD_ORDER : {2, 4, 6, 8, 10, 12},
     DH : {FloatV(2, 1), FloatV(125, -1), IntV(5), FloatV(1, -1)},
     maxvp : {FloatV(35, 2), FloatV(15, 2), IntV(6000), FloatV(47091, -1)},
     maxvs : {FloatV(20588, -1), IntV(4000), FloatV(8, 3)}]
    \cup {FineGrid}

InitStab ==
    /\ \E i \in StabInputs : stab = [in |-> i, out |-> Pending]
    /\ text = <<>>
    /\ pc = "stability"
    /\ attrs = EmptyDict
    /\ inp_file = <<>>
    /\ map_args = EmptyDict
    /\ fwi_stages = <<>>
    /\ model = EmptyModel
    /\ disk = [x \in {} |-> ""]
    /\ dirs = {}
    /\ trace = <<>>
    /\ err = ""
    /\ hist = <<>>
    /\ pre = Nothing

\* dt = d._check_stability(maxvp, maxvs)
CheckStability ==
    /\ pc = "stability"
    /\ stab.out = Pending
    /\ stab' = [stab EXCEPT !.out = check_stability(stab.in.max_relative_error,
                                                    stab.in.FD_ORDER, stab.in.DH,
                                                    stab.in.maxvp, stab.in.maxvs)]
    /\ UNCHANGED <<text, pc, attrs, inp_file, map_args, fwi_stages, model, disk, dirs,
                   trace, err, hist, pre>>

NextStab == CheckStability

SpecStab == InitStab /\ [][NextStab]_vars

(***************************************************************************)
(* The decomposition validator on its own: _check_domain_decomp on an      *)
(* instance holding the given grid and process counts.                     *)
(***************************************************************************)
Grid(nx, ny, nprocx, nprocy) ==
    ("NX" :> IntV(nx)) @@ ("NY" :> IntV(ny)) @@ ("NPROCX" :> IntV(nprocx))
    @@ ("NPROCY" :> IntV(nprocy))

Grids ==
    {Grid(nx, ny, nprocx, nprocy) :
        nx \in {500, 501, 12, 7}, ny \in {174, 175, 12, 5},
        nprocx \in {1, 5, 3, 4}, nprocy \in {1, 3, 2}}

InitDecomp ==
    /\ \E g \in Grids : attrs = g
    /\ text = <<>>
    /\ pc = "decomposition"
    /\ stab = [in |-> NoInput, out |-> Pending]
    /\ inp_file = <<>>
    /\ map_args = EmptyDict
    /\ fwi_stages = <<>>
    /\ model = EmptyModel
    /\ disk = [x \in {} |-> ""]
    /\ dirs = {}
    /\ trace = <<>>
    /\ err = ""
    /\ hist = <<>>
    /\ pre = Nothing

\* d._check_domain_decomp()
CheckDomainDecomp ==
    /\ pc = "decomposition"
    /\ Becomes(check_domain_decomp(Entry))
    /\ pc' = "checked"
    /\ UNCHANGED <<text, hist, pre, stab>>

NextDecomp == CheckDomainDecomp

SpecDecomp == InitDecomp /\ [][NextDecomp]_vars

(***************************************************************************)
(* Properties.                                                             *)
(***************************************************************************)
Last == hist[Len(hist)]

\* the last call was one of ops, on a constructed instance
Ran(ops) == pc = "ready" /\ Len(hist) > 0 /\ Last.op \in ops

Happened(ev) == {i \in 1..Len(trace) : trace[i].ev = ev}

Serializers == {"help", "_write_inp_file"}

\* the text the last call printed or wrote as the parameter file
Serialized ==
    IF Last.op = "help"
    THEN SubSeq(trace[Len(trace)].arg, 1, Len(trace[Len(trace)].arg) - 1)
    ELSE disk[attrs["filename"].s]

\* the lines recorded for a parameter, and the parameter of such a line
Tracked == {map_args[a] : a \in DOMAIN map_args}

NameAt(i) == CHOOSE a \in DOMAIN map_args : map_args[a] = i

\* a line up to its final '=', the '=' left out; nothing when it has none
BeforeLastEq(s) ==
    IF IndexesOf(s, "=") = {} THEN "" ELSE SubSeq(s, 1, SetMax(IndexesOf(s, "=")) - 1)

\* the form the writer gives the line `line` for a parameter of value v
Canonical(line, v) == BeforeLastEq(line) \o "= " \o RemoveParens(Str(v)) \o "\n"

\* the serialization is the first call on the instance
FirstSerialization == Ran(Serializers) /\ Len(hist) = 1 /\ err = ""

\* C1 as stated: parsing a text the parser accepts and serializing it with no
\* value changed in between gives back the text, character for character.
C1_Identical == FirstSerialization => Serialized = Join(text)

\* C1, amended: parsing an accepted text and serializing it keeps the number
\* of lines and every line not recorded for a parameter; a recorded line
\* keeps its text before the final '=' and ends in "= ", the string of the
\* value held (the parsed one, None for DT) without parentheses, and a
\* newline.  The output is the input exactly when every recorded line
\* already has that form.
C1_RoundTrip ==
    FirstSerialization =>
        /\ Serialized = Join(inp_file)
        /\ Len(inp_file) = Len(text)
        /\ \A a \in DOMAIN map_args :
               attrs[a] = IF a = "DT" THEN NoneV ELSE parse_inp_file(text).para[a]
        /\ \A i \in 1..Len(text) :
               inp_file[i] = IF i \in Tracked THEN Canonical(text[i], attrs[NameAt(i)])
                             ELSE text[i]
        /\ (Serialized = Join(text))
               <=> \A i \in Tracked : text[i] = Canonical(text[i], attrs[NameAt(i)])

\* a first serialization that rewrote a recorded line and kept another line
C1_Witness ==
    /\ FirstSerialization
    /\ Last.op = "_write_inp_file"
    /\ Serialized # Join(text)
    /\ \E i \in Tracked : inp_file[i] # text[i]
    /\ \E i \in 1..Len(text) : i \notin Tracked /\ inp_file[i] = text[i]

\* a serialization, then one assignment of another value to a recorded
\* parameter, then the serialization just made
Reserialized ==
    /\ Ran(Serializers)
    /\ Len(hist) >= 3
    /\ hist[Len(hist) - 1].op = "setattr"
    /\ hist[Len(hist) - 1].arg.value # hist[Len(hist) - 1].arg.old
    /\ hist[Len(hist) - 2].op \in Serializers
    /\ err = ""

StartsWith(s, prefix) == Len(s) >= Len(prefix) /\ SubSeq(s, 1, Len(prefix)) = prefix

\* C2: after a new value is assigned to exactly one recorded parameter, the
\* next serialization differs from the previous one in the line recorded for
\* that parameter and in no other, keeps the number of lines, and keeps that
\* line up to the final '=' it had.
C2_OneLine ==
    Reserialized =>
        LET k == map_args[hist[Len(hist) - 1].arg.name]
        IN  /\ Serialized = Join(inp_file)
            /\ Len(inp_file) = Len(pre.inp_file)
            /\ inp_file[k] # pre.inp_file[k]
            /\ StartsWith(inp_file[k], BeforeLastEq(pre.inp_file[k]) \o "=")
            /\ \A i \in 1..Len(inp_file) : i # k => inp_file[i] = pre.inp_file[i]

Runs == {"forward", "fwi"}

\* C3: in every forward or fwi run whose grid fails the decomposition check,
\* no output file has been created or modified when the failure is raised.
C3_NothingWritten ==
    (Ran(Runs) /\ err = "AssertionError") => Happened("write") = {} /\ disk = pre.disk

\* C4: the decomposition validator succeeds exactly when NX mod NPROCX = 0
\* and NY mod NPROCY = 0 and fails with the assertion otherwise; it passes
\* (500, 174, 5, 3) and fails (501, 174, 5, 3).
C4_Validator ==
    pc = "checked" =>
        /\ err = "" <=> /\ attrs["NX"].n % attrs["NPROCX"].n = 0
                        /\ attrs["NY"].n % attrs["NPROCY"].n = 0
        /\ err \in {"", "AssertionError"}
        /\ attrs = Grid(500, 174, 5, 3) => err = ""
        /\ attrs = Grid(501, 174, 5, 3) => err = "AssertionError"

\* a grid whose x axis divides and whose y axis does not is refused
C4_Witness ==
    /\ pc = "checked"
    /\ attrs["NX"].n % attrs["NPROCX"].n = 0
    /\ attrs["NPROCX"].n > 1
    /\ attrs["NY"].n % attrs["NPROCY"].n # 0
    /\ err = "AssertionError"

\* the grid of the model passed to the last run does not divide among the processes
BadGrid ==
    \/ Last.arg.model.shape[2] % pre.attrs["NPROCX"].n # 0
    \/ Last.arg.model.shape[1] % pre.attrs["NPROCY"].n # 0

EmptySchedule == Last.op = "fwi" /\ pre.fwi_stages = <<>>

\* C5: in every run in which the decomposition check fails or fwi is called
\* with an empty schedule, the solver is not launched, and the caller is told:
\* by an exception, or by the printed diagnostic.
C5_NoLaunch ==
    (Ran(Runs) /\ (BadGrid \/ EmptySchedule)) =>
        /\ Happened("launch") = {}
        /\ err # "" \/ Happened("print") # {}
        /\ \A i \in Happened("check_domain_decomp") : err = "AssertionError"

\* a run that was to launch the solver and failed the decomposition check
C5_Witness ==
    /\ Ran(Runs)
    /\ BadGrid
    /\ ~Last.arg.disable
    /\ Happened("check_domain_decomp") # {}
    /\ err = "AssertionError"

\* C6: fwi called while the schedule is empty does not enter _engine, writes
\* no file, makes no folder, does not launch the solver, and prints a diagnostic.
C6_Refused ==
    (Ran({"fwi"}) /\ EmptySchedule) =>
        /\ Happened("_engine") = {}
        /\ Happened("write") = {}
        /\ Happened("launch") = {}
        /\ disk = pre.disk
        /\ dirs = pre.dirs
        /\ \E i \in Happened("print") : trace[i].arg # ""
        /\ err = ""

\* fwi refused for an empty schedule, with a model that passes every check
\* and the launch enabled
C6_Witness ==
    /\ Ran({"fwi"})
    /\ EmptySchedule
    /\ Last.arg.model = ModelDemo
    /\ ~Last.arg.disable
    /\ Happened("print") # {}

\* the lines of a text that ends in a newline, the newlines left out
Lines(s) ==
    LET idx == IndexesOf(s, "\n")
        at(k) == IF k = 0 THEN 0
                 ELSE CHOOSE x \in idx : Cardinality({y \in idx : y < x}) = k - 1
    IN  [k \in 1..Cardinality(idx) |-> SubSeq(s, at(k - 1) + 1, at(k) - 1)]

\* the place of the first tab of s at or after i, Len(s) + 1 when there is none
RECURSIVE NextTab(_, _)
NextTab(s, i) == IF i > Len(s) \/ Char(s, i) = "\t" THEN i ELSE NextTab(s, i + 1)

\* s.split('\t'), from position start on
RECURSIVE FieldsFrom(_, _)
FieldsFrom(s, start) ==
    IF NextTab(s, start) > Len(s) THEN <<SubSeq(s, start, Len(s))>>
    ELSE <<SubSeq(s, start, NextTab(s, start) - 1)>> \o FieldsFrom(s, NextTab(s, start) + 1)

Fields(s) == FieldsFrom(s, 1)

\* the add_fwi_stage calls made so far, in call order
Adds == SelectSeq(hist, LAMBDA c : c.op = "add_fwi_stage")

\* the last call was an fwi that wrote the workflow file
WorkflowWritten ==
    /\ Ran({"fwi"})
    /\ \E i \in Happened("write") : trace[i].arg = pre.attrs["filename_workflow"].s

\* the rows of that file under its header, each as its tab-separated fields
Rows ==
    LET lines == Lines(disk[pre.attrs["filename_workflow"].s])
    IN  [r \in 1..(Len(lines) - 1) |-> Fields(lines[r + 1])]

\* the names of the columns, from the header line
Columns ==
    LET header == Fields(Lines(disk[pre.attrs["filename_workflow"].s])[1])
    IN  [j \in 1..Len(header) |-> strip(header[j])]

\* C7: the schedule holds one stage per add_fwi_stage call, in call order,
\* equal stages included, and the workflow file fwi writes has one row per
\* stage in that order under the header.
C7_CallOrder ==
    /\ pc = "ready" =>
           /\ Len(fwi_stages) = Len(Adds)
           /\ \A i \in 1..Len(Adds) :
                  /\ fwi_stages[i]["FC_HIGH"] = Adds[i].arg["fc_high"]
                  /\ fwi_stages[i]["NORMALIZE"] = (Adds[i].arg @@ stage_defaults)["normalize"]
    /\ WorkflowWritten =>
           LET rows == Rows
           IN  /\ Len(rows) = Len(Adds)
               /\ \A i \in 1..Len(Adds) : rows[i][4] = Str(Adds[i].arg["fc_high"])

\* a workflow file written for three stages, two of them equal, the first
\* with the lowest frequency last in sorted order
C7_Witness ==
    /\ WorkflowWritten
    /\ Len(Adds) = 3
    /\ Adds[1].arg["fc_high"].n > Adds[2].arg["fc_high"].n
    /\ Adds[2].arg = Adds[3].arg
    /\ Len(Rows) = 3

Reserved == {"NORMALIZE", "GAMMA_GRAV"}

\* C8: every row of the workflow file has as many tab-separated fields as the
\* header has column names, and its fields under NORMALIZE and GAMMA_GRAV are
\* the literal 0, whatever the stage holds.
C8_Reserved ==
    WorkflowWritten =>
        LET rows == Rows
            columns == Columns
        IN  /\ Reserved \subseteq {columns[j] : j \in 1..Len(columns)}
            /\ \A r \in 1..Len(rows) :
                   /\ Len(rows[r]) = Len(columns)
                   /\ \A j \in 1..Len(columns) :
                          columns[j] \in Reserved => rows[r][j] = "0"

\* a workflow file with the row of a stage created with normalize=1
C8_Witness ==
    /\ WorkflowWritten
    /\ \E r \in 1..Len(pre.fwi_stages) : pre.fwi_stages[r]["NORMALIZE"] = IntV(1)

\* the result of _check_stability for the two maximum velocities, on the
\* instance as the run left it
Stability(maxvp, maxvs) ==
    check_stability(attrs["max_relative_error"].n, attrs["FD_ORDER"].n, attrs["DH"],
                    maxvp, maxvs).dt

FromModel(m) == Stability(ValMax(nonzero(m.vp)), ValMax(nonzero(m.vs)))

FromLimits == Stability(attrs["VPUPPERLIM"], attrs["VSUPPERLIM"])

\* an fwi run that passed its checks on an instance whose DT was unset
FwiWithoutDT == Ran({"fwi"}) /\ err = "" /\ ~EmptySchedule /\ pre.attrs["DT"] = NoneV

\* C9: a forward run that passes its checks sets DT to the stability result
\* for the largest non-zero vp and vs of the model passed to it; such an fwi
\* run on an instance whose DT is unset sets DT to the stability result for
\* VPUPPERLIM and VSUPPERLIM.
C9_TimeStepSource ==
    /\ (Ran({"forward"}) /\ err = "") => attrs["DT"] = FromModel(Last.arg.model)
    /\ FwiWithoutDT => attrs["DT"] = FromLimits

\* an fwi run that set DT from the limits, to another value than the model gives
C9_Witness ==
    /\ FwiWithoutDT
    /\ attrs["DT"] # NoneV
    /\ attrs["DT"] # FromModel(Last.arg.model)

\* the stability computation returned a time step
Computed == pc = "stability" /\ stab.out # Pending /\ stab.out.err = ""

RawDt ==
    cfl_dt(stab.in.max_relative_error, stab.in.FD_ORDER, stab.in.DH, stab.in.maxvp,
           stab.in.maxvs)

\* C10: for every accuracy class, FD_ORDER, grid spacing and velocities, the
\* dt _check_stability returns is at most 0.99 * dt_raw and below dt_raw,
\* for dt_raw = DH / (sqrt(2) * gamma * v_max).
C10_NeverUp ==
    Computed =>
        /\ AtLeast(safe_dt(RawDt), stab.out.dt.n, stab.out.dt.e)
        /\ Above(RawDt, stab.out.dt.n, stab.out.dt.e)

\* a time step rounded to an ending below the one above 0.99 * dt_raw
C10_Witness ==
    /\ Computed
    /\ stab.in.max_relative_error = 4
    /\ stab.in.FD_ORDER = 12
    /\ ~AtLeast(safe_dt(RawDt), stab.out.dt.n * 2, stab.out.dt.e)

(***************************************************************************)
(* The rounding rule of the stability analysis.                            *)
(***************************************************************************)
\* the candidate set of the rounding rule
Candidates == {10, 20, 25, 50, 80}

\* the exponents of the scales a time step is looked for at
Scales == -12..4

\* the demo of the source: DH = 20, vp = 3500, vs = vp / 1.7 (to one decimal),
\* Taylor coefficients, FD_ORDER = 6
DemoStability ==
    [max_relative_error |-> 0, FD_ORDER |-> 6, DH |-> FloatV(2, 1),
     maxvp |-> FloatV(35, 2), maxvs |-> FloatV(20588, -1)]

\* c * 10^j is what the rounding rule gives for 0.99 * dt_raw: 10^j is the
\* scale 10^(floor(log10(0.99 * dt_raw)) - 1) and c the largest candidate not
\* above 0.99 * dt_raw / 10^j
RuleGives(c, j) ==
    /\ AtLeast(safe_dt(RawDt), 10, j)
    /\ ~AtLeast(safe_dt(RawDt), 100, j)
    /\ AtLeast(safe_dt(RawDt), c, j)
    /\ \A e \in Candidates : e > c => ~AtLeast(safe_dt(RawDt), e, j)

\* C11: the dt _check_stability returns is candidate * scale of the rounding
\* rule, and for the demo inputs (DH = 20, max_vp = 3500, max_vs = 3500/1.7,
\* accuracy class 0, FD_ORDER = 6) it is 25 * 10^-4, below the raw CFL bound.
C11_RoundingRule ==
    Computed =>
        /\ \E c \in Candidates, j \in Scales :
               RuleGives(c, j) /\ stab.out.dt = NormFloat(c, j)
        /\ stab.in = DemoStability =>
               /\ stab.out.dt = FloatV(25, -4)
               /\ RuleGives(25, -4)
               /\ Above(RawDt, 25, -4)

\* the demo inputs rounded to 0.0025, where the raw bound is above 0.0032
C11_Witness ==
    /\ Computed
    /\ stab.in = DemoStability
    /\ stab.out.dt = FloatV(25, -4)
    /\ Above(RawDt, 32, -4)

(***************************************************************************)
(* Monotonicity of the stability analysis, between the inputs of SpecStab. *)
(***************************************************************************)
\* what _check_stability returns for the inputs i
Dt(i) == check_stability(i.max_relative_error, i.FD_ORDER, i.DH, i.maxvp, i.maxvs)

\* the inputs that differ from the computed ones in max_vp alone and have a
\* larger one; the same for max_vs; the same for DH
LargerVp == {o \in StabInputs : /\ o = [stab.in EXCEPT !.maxvp = o.maxvp]
                                /\ o # stab.in
                                /\ ValLess(stab.in.maxvp, o.maxvp)}

LargerVs == {o \in StabInputs : /\ o = [stab.in EXCEPT !.maxvs = o.maxvs]
                                /\ o # stab.in
                                /\ ValLess(stab.in.maxvs, o.maxvs)}

LargerDH == {o \in StabInputs : /\ o = [stab.in EXCEPT !.DH = o.DH]
                                /\ o # stab.in
                                /\ ValLess(stab.in.DH, o.DH)}

\* C12 as stated: with accuracy class and FD_ORDER fixed, the returned dt is
\* strictly smaller for a larger max_vp, strictly smaller for a larger max_vs
\* and strictly larger for a larger DH.
C12_Strict ==
    Computed =>
        /\ \A o \in LargerVp \cup LargerVs : ValLess(Dt(o).dt, stab.out.dt)
        /\ \A o \in LargerDH : ValLess(stab.out.dt, Dt(o).dt)

\* C12: with accuracy class and FD_ORDER fixed, the returned dt is never
\* larger for a larger max_vp or max_vs and never smaller for a larger DH.
C12_Monotone ==
    Computed =>
        /\ \A o \in LargerVp \cup LargerVs : ~ValLess(stab.out.dt, Dt(o).dt)
        /\ \A o \in LargerDH : ~ValLess(Dt(o).dt, stab.out.dt)

\* a computed dt that a larger max_vp lowers, another larger max_vp leaves as
\* it is, a larger max_vs leaves as it is and a larger DH raises
C12_Witness ==
    /\ Computed
    /\ \E o \in LargerVp : ValLess(Dt(o).dt, stab.out.dt)
    /\ \E o \in LargerVp : Dt(o).dt = stab.out.dt
    /\ \E o \in LargerVs : Dt(o).dt = stab.out.dt
    /\ \E o \in LargerDH : ValLess(stab.out.dt, Dt(o).dt)

(***************************************************************************)
(* Two runs in a row.                                                      *)
(***************************************************************************)
\* the file an instance state S names by its attribute, as it is on disk
File(S, name) ==
    IF S.attrs[name].s \in DOMAIN S.disk
    THEN [there |-> TRUE, content |-> S.disk[S.attrs[name].s]]
    ELSE [there |-> FALSE, content |-> ""]

\* the last call was a run that completed, made with the arguments of the
\* completed run before it, the schedule not empty for an fwi
SameRunTwice ==
    /\ Ran(Runs)
    /\ err = ""
    /\ Len(hist) >= 2
    /\ hist[Len(hist) - 1] = Last
    /\ pre.err = ""
    /\ Last.op = "fwi" => pre.fwi_stages # <<>>

\* C13: after the second of two identical runs in a row the configuration
\* file and, for fwi, the workflow file are byte-identical to those after the
\* first run.
C13_Idempotent ==
    SameRunTwice =>
        /\ File(Self, "filename") = File(pre, "filename")
        /\ Last.op = "fwi" => File(Self, "filename_workflow") = File(pre, "filename_workflow")

\* no value the configuration file records holds an '='
NoEqualsSign == \A a \in DOMAIN map_args : ~Contains(Str(attrs[a]), "=")

\* an fwi run twice in a row, no recorded value holding an '=', that left
\* both files as the first run wrote them
C13_Witness ==
    /\ SameRunTwice
    /\ NoEqualsSign
    /\ Last.op = "fwi"
    /\ File(Self, "filename").there
    /\ File(Self, "filename_workflow").there
    /\ File(Self, "filename") = File(pre, "filename")
    /\ File(Self, "filename_workflow") = File(pre, "filename_workflow")

(***************************************************************************)
(* The hand-off to the solver.                                             *)
(***************************************************************************)
\* sub occurs in s
Within(s, sub) ==
    \E i \in 1..(Len(s) - Len(sub) + 1) : SubSeq(s, i, i + Len(sub) - 1) = sub

\* the commands the last call launched
Launched == {trace[i].arg : i \in Happened("launch")}

\* the process count NPROCX * NPROCY, in digits
ProcessCount == NatToStr(attrs["NPROCX"].n * attrs["NPROCY"].n)

\* C14: a launch command starts with the parallel-run prefix for NPROCX *
\* NPROCY processes, names the solver executable and the configuration file,
\* and names the workflow file exactly when the run is an inversion.
C14_HandOff ==
    Ran(Runs) =>
        \A cmd \in Launched :
            /\ StartsWith(cmd, "mpirun -np " \o ProcessCount \o " ")
            /\ Within(cmd, "./bin/denise")
            /\ Within(cmd, attrs["filename"].s)
            /\ Within(cmd, attrs["filename_workflow"].s) <=> Last.op = "fwi"

\* an inversion launched with the configuration and the workflow file
C14_Witness ==
    /\ Ran({"fwi"})
    /\ \E cmd \in Launched : /\ Within(cmd, attrs["filename"].s)
                             /\ Within(cmd, attrs["filename_workflow"].s)

(***************************************************************************)
(* The end of the parameters.                                              *)
(***************************************************************************)
\* a non-comment line with neither '=' nor a parenthesis; an empty or
\* whitespace-only line is one
Sentinel(line) ==
    /\ strip(line) = "" \/ Char(strip(line), 1) # "#"
    /\ ~Contains(line, "=")
    /\ ~Contains(line, "(")
    /\ ~Contains(line, ")")

\* the numbers of the sentinel lines of the text
Sentinels == {i \in 1..Len(text) : Sentinel(text[i])}

\* what parsing the lines before the first sentinel alone gives
BeforeSentinel == parse_inp_file(SubSeq(text, 1, SetMin(Sentinels) - 1))

\* the parameters the constructor sets itself after parsing
SetByInit == {"DT", "NT", "save_folder", "SEIS_FILE_NAME"} \cup DOMAIN paths("", "")

\* C15: when the text has a sentinel line, with only comments and parameter
\* lines before it, the constructor raises nothing, records the parameters
\* of the lines before the sentinel with their values and records nothing
\* from the sentinel line or any later line.
C15_BenignEnd ==
    (pc # "new" /\ hist = <<>> /\ Sentinels # {} /\ BeforeSentinel.status = "ok") =>
        /\ pc = "ready"
        /\ map_args = BeforeSentinel.map_args
        /\ \A a \in DOMAIN map_args \ SetByInit : attrs[a] = BeforeSentinel.para[a]

\* a text whose first line is a sentinel with text on it and whose second
\* line holds a parameter, parsed without error and with nothing recorded
C15_Witness ==
    /\ pc = "ready"
    /\ hist = <<>>
    /\ Len(text) = 2
    /\ Sentinel(text[1])
    /\ strip(text[1]) # ""
    /\ Contains(text[2], "=")
    /\ map_args = EmptyDict

(***************************************************************************)
(* What a serialization leaves behind.                                     *)
(***************************************************************************)
\* C16: help() and _write_inp_file() leave the stored lines of the
\* configuration text, the parameter values and the line numbers of the
\* parameters as they were before the call.
C16_Pure ==
    Ran(Serializers) =>
        /\ inp_file = pre.inp_file
        /\ attrs = pre.attrs
        /\ map_args = pre.map_args

\* a serialization of a changed parameter: the values are as before the
\* call, the stored line of the parameter is not
C16_Witness ==
    /\ Ran(Serializers)
    /\ err = ""
    /\ Len(hist) >= 2
    /\ hist[Len(hist) - 1].op = "setattr"
    /\ attrs = pre.attrs
    /\ map_args = pre.map_args
    /\ inp_file # pre.inp_file

(***************************************************************************)
(* The order of the files and the launch.                                  *)
(***************************************************************************)
\* the files the solver reads besides the parameter file
SolverInputs ==
    {attrs["MFILE"].s \o ".vp", attrs["MFILE"].s \o ".vs", attrs["MFILE"].s \o ".rho",
     attrs["REC_FILE"].s \o ".dat", attrs["SOURCE_FILE"].s}

\* the places in the trace of the last call, before place n, where path was written
WrittenBefore(n, path) == {i \in Happened("write") : i < n /\ trace[i].arg = path}

\* C17: when a run launches the solver, that run has before the launch
\* written the three model binaries, the receiver and the source file and the
\* parameter file, and the parameter file after every other file of the run.
C17_LaunchLast ==
    Ran(Runs) =>
        \A n \in Happened("launch") :
            /\ \A path \in SolverInputs : WrittenBefore(n, path) # {}
            /\ WrittenBefore(n, attrs["filename"].s) # {}
            /\ \A i \in Happened("write") :
                   i <= SetMax(WrittenBefore(n, attrs["filename"].s) \cup {0})

\* an fwi run that launched the solver: the workflow file, the model, the
\* receivers and sources, then the parameter file, then the launch
C17_Witness ==
    /\ Ran({"fwi"})
    /\ Len(trace) >= 2
    /\ trace[Len(trace)].ev = "launch"
    /\ trace[Len(trace) - 1] = Event("write", attrs["filename"].s)
    /\ WrittenBefore(Len(trace) - 1, pre.attrs["filename_workflow"].s) # {}
    /\ \A path \in SolverInputs : WrittenBefore(Len(trace) - 1, path) # {}

(***************************************************************************)
(* The time step of an instance that has one.                              *)
(***************************************************************************)
\* the last call was made on an instance whose DT was set
HadDT == pc = "ready" /\ Len(hist) > 0 /\ pre.attrs["DT"] # NoneV

\* C18: an fwi call on an instance whose DT is set leaves DT as it was,
\* whatever the model passed and the limits VPUPPERLIM and VSUPPERLIM are;
\* of all the calls only a forward run gives a set DT another value.
C18_Reuse ==
    /\ (HadDT /\ Last.op = "fwi") => attrs["DT"] = pre.attrs["DT"]
    /\ (HadDT /\ attrs["DT"] # pre.attrs["DT"]) => Last.op = "forward"

\* an fwi run through _engine that kept a DT which neither its model nor the
\* limits give
C18_Witness ==
    /\ HadDT
    /\ Last.op = "fwi"
    /\ err = ""
    /\ Happened("_engine") # {}
    /\ attrs["DT"] = pre.attrs["DT"]
    /\ attrs["DT"] # FromLimits
    /\ attrs["DT"] # FromModel(Last.arg.model)

(***************************************************************************)
(* The endings the mask keeps.                                             *)
(***************************************************************************)
\* the stability computation has ended, with a time step or an exception
Ended == pc = "stability" /\ stab.out # Pending

\* the exponent of _dt10 for the inputs of the computation
Exp10 == FloorLog10(safe_dt(RawDt)) - 1

\* C19: for every input the mantissa 0.99 * dt_raw / _dt10 is at least 10
\* and below 100, so the mask keeps the ending 10 at least and
\* _check_stability returns a time step.
C19_NeverEmpty ==
    Ended =>
        /\ AtLeast(safe_dt(RawDt), 10, Exp10)
        /\ ~AtLeast(safe_dt(RawDt), 100, Exp10)
        /\ stab.out.err = ""
        /\ stab.out.dt # NoneV

\* a computation whose mantissa is below 20: the mask keeps the ending 10 alone
C19_Witness ==
    /\ Ended
    /\ AtLeast(safe_dt(RawDt), 10, Exp10)
    /\ ~AtLeast(safe_dt(RawDt), 20, Exp10)
    /\ stab.out = [err |-> "", dt |-> NormFloat(10, Exp10)]

(***************************************************************************)
(* The workflow file over several inversions.                              *)
(***************************************************************************)
\* the workflow file the last call wrote
Workflow == disk[pre.attrs["filename_workflow"].s]

\* the rows of the schedule, as _write_denise_workflow writes them
ScheduleRows == [i \in 1..Len(fwi_stages) |-> workflow_row(fwi_stages[i])]

\* C20: the workflow file an fwi call has written holds the header and then
\* one row for each stage of the schedule of that call, len(fwi_stages) rows
\* in all, whatever the file held before the call.
C20_NoAccumulation ==
    WorkflowWritten =>
        /\ fwi_stages = pre.fwi_stages
        /\ Len(Lines(Workflow)) = 1 + Len(fwi_stages)
        /\ Workflow = workflow_header \o Join(ScheduleRows)

\* an fwi call that found the workflow file of an earlier fwi call, written
\* for a shorter schedule, and wrote it anew with two rows
C20_Witness ==
    /\ WorkflowWritten
    /\ Len(fwi_stages) = 2
    /\ pre.attrs["filename_workflow"].s \in DOMAIN pre.disk
    /\ Len(Lines(pre.disk[pre.attrs["filename_workflow"].s])) = 2
    /\ Len(Lines(Workflow)) = 3

(***************************************************************************)
(* NT and the runs.                                                        *)
(***************************************************************************)
\* no forward call has been made on the instance
NoForwardYet == \A i \in 1..Len(hist) : hist[i].op # "forward"

\* the last call wrote the parameter file
WroteInpFile == \E i \in Happened("write") : trace[i].arg = attrs["filename"].s

\* C21: NT is assigned only by forward-mode runs, as int(TIME / DT) with the
\* DT of that run: a call that changed NT is a forward call, an fwi run leaves
\* NT as it was, and on an instance with no forward call so far NT is None,
\* also when an fwi run writes the parameter file.
C21_OnlyForward ==
    /\ (pc = "ready" /\ Len(hist) > 0 /\ attrs["NT"] # pre.attrs["NT"]) =>
           /\ Last.op = "forward"
           /\ attrs["MODE"] = IntV(0)
           /\ attrs["DT"] = FromModel(Last.arg.model)
           /\ attrs["NT"] = int_div(attrs["TIME"], attrs["DT"])
    /\ Ran({"fwi"}) => attrs["NT"] = pre.attrs["NT"]
    /\ (pc = "ready" /\ NoForwardYet) => attrs["NT"] = NoneV
    /\ (Ran({"forward"}) /\ err = "") => attrs["NT"] = int_div(attrs["TIME"], attrs["DT"])

\* an fwi run on an instance with no forward call so far, which set DT from
\* the limits and wrote the parameter file with NT unset
C21_Witness ==
    /\ Ran({"fwi"})
    /\ NoForwardYet
    /\ err = ""
    /\ WroteInpFile
    /\ pre.attrs["DT"] = NoneV
    /\ attrs["DT"] # NoneV
    /\ attrs["NT"] = NoneV

(***************************************************************************)
(* What a refused fwi call leaves behind.                                  *)
(***************************************************************************)
\* the parameters whose value differs from the value before the last call
ChangedAttrs ==
    {a \in DOMAIN attrs \cup DOMAIN pre.attrs :
        a \notin DOMAIN attrs \/ a \notin DOMAIN pre.attrs \/ attrs[a] # pre.attrs[a]}

\* C22: an fwi call refused for an empty schedule changes the instance in one
\* place only, MODE, which is 1 after it; DT, NT, the schedule, the stored
\* lines of the parameter file, the record of tracked lines, the model and
\* every other parameter are as they were before the call.
C22_OnlyMode ==
    (Ran({"fwi"}) /\ EmptySchedule) =>
        /\ attrs["MODE"] = IntV(1)
        /\ ChangedAttrs \subseteq {"MODE"}
        /\ attrs["DT"] = pre.attrs["DT"]
        /\ attrs["NT"] = pre.attrs["NT"]
        /\ fwi_stages = pre.fwi_stages
        /\ inp_file = pre.inp_file
        /\ map_args = pre.map_args
        /\ model = pre.model

\* an fwi call refused on an instance in forward mode whose DT and NT a
\* forward run had set: MODE alone has changed
C22_Witness ==
    /\ Ran({"fwi"})
    /\ EmptySchedule
    /\ pre.attrs["MODE"] = IntV(0)
    /\ pre.attrs["DT"] # NoneV
    /\ pre.attrs["NT"] # NoneV
    /\ ChangedAttrs = {"MODE"}
    /\ inp_file = pre.inp_file

(***************************************************************************)
(* Serializing twice in a row.                                             *)
(***************************************************************************)
\* the text the call op printed or wrote as the parameter file, S being the
\* instance and the events as that call left them
SerializedBy(S, op) ==
    IF op = "help"
    THEN SubSeq(S.trace[Len(S.trace)].arg, 1, Len(S.trace[Len(S.trace)].arg) - 1)
    ELSE S.disk[S.attrs["filename"].s]

\* the last two calls were serializations, nothing in between
TwiceInARow ==
    /\ Ran(Serializers)
    /\ Len(hist) >= 2
    /\ hist[Len(hist) - 1].op \in Serializers
    /\ err = ""
    /\ pre.err = ""

\* both serializations gave the same text
SameText == SerializedBy(Self, Last.op) = SerializedBy(pre, hist[Len(hist) - 1].op)

\* C23: serializing twice in a row with no value changed in between gives the
\* same text both times, for every parameter set, values whose string holds
\* an '=' included.
C23_Idempotent == TwiceInARow => SameText

\* the same, for the parameter sets no value of which holds an '='
C23_WithoutEquals == (TwiceInARow /\ NoEqualsSign) => SameText

\* two serializations in a row after a parameter was assigned a value with no
\* '=' in it: the second gives the text of the first, which is not the text
\* of the file read
C23_Witness ==
    /\ TwiceInARow
    /\ NoEqualsSign
    /\ Len(hist) >= 3
    /\ hist[Len(hist) - 2].op = "setattr"
    /\ SameText
    /\ SerializedBy(Self, Last.op) # Join(text)

====
